---- MODULE Spec2Model ----
(***************************************************************************)
(* The whitelist service of the Apex discord bot (services/whitelist.js):  *)
(* the regular-expression codec that reads and rewrites whitelist.sqf, and *)
(* the add / remove / list operations built on it.                         *)
(*                                                                         *)
(* Text is modelled character by character: a string is a sequence of      *)
(* one-character strings, so that the two regular expressions, split,      *)
(* trim, the quote stripping and the formatting are computed the way the   *)
(* JavaScript computes them.                                               *)
(***************************************************************************)
EXTENDS Integers, Sequences, FiniteSets, TLC

VARIABLES
    text,        \* codec: the content handed to updateWhitelistInContent / parseContent
    prevText,    \* codec: the content before the last updateWhitelistInContent
    cRole,       \* codec: the role argument of the last updateWhitelistInContent
    cList,       \* codec: the uids argument of the last updateWhitelistInContent
    parsed,      \* codec: the Map returned by the last parseContent
    cDone,       \* codec: which of the two functions have been applied
    fileExists,  \* service: existsSync(this.filePath)
    file,        \* service: the content of the file at this.filePath
    before,      \* service: the file content when the last call started
    call,        \* service: the last call, [op, role, uid]
    ret,         \* service: how the last call ended, [kind, success, msg, value]
    prev,        \* service: whether the call before the last had the same
                 \*          arguments, and whether it returned success
    pc,          \* race: where each concurrent addUid stands
    snap,        \* race: the content each concurrent addUid read
    arg,         \* race: the identifier each concurrent addUid adds
    res,         \* race: how each concurrent addUid ended
    usePterodactyl, \* manager: pterodactylService.isEnabled() at construction
    remote,      \* manager: the whitelist file on the Pterodactyl server
    remoteBefore,\* manager: the remote file when the last call started
    trace,       \* manager: the steps of the last call, in order
    rows,        \* database: the rows of player_whitelist, in id order
    audit,       \* database: the rows of whitelist_audit_log, in id order
    sess,        \* database: where each client session stands in its call
    dbRet,       \* database: the last call that ended, and its result
    adminRoleId, \* command: config.discord.adminRoleId
    interaction, \* command: the last interaction execute() was given
    managerOps,  \* command: the manager operations execute() performed for it
    replies,     \* command: what execute() sent back for it
    request,     \* web: the last callback request and what the outside gave
    steamId,     \* web: what SteamAuth::validate returned for it
    page,        \* web: how handleCallback ended
    isUsingDB,   \* game server: QS_server_isUsingDB
    cacheDuration, \* game server: QS_whitelist_cacheDuration
    cache,       \* game server: QS_whitelist_cache_<type> and its cacheTime
    now,         \* game server: diag_tickTime
    sqf,         \* game server: the QS_fnc_whitelistDB call in flight
    sqfRet,      \* game server: the last QS_fnc_whitelistDB call that returned
    initSteps,   \* game server: the extension commands fn_databaseInit sent
    initRet,     \* game server: what fn_databaseInit returned
    extdbProtocol \* game server: QS_extdb_protocol

vars == <<text, prevText, cRole, cList, parsed, cDone,
          fileExists, file, before, call, ret, prev,
          pc, snap, arg, res,
          usePterodactyl, remote, remoteBefore, trace,
          rows, audit, sess, dbRet,
          adminRoleId, interaction, managerOps, replies,
          request, steamId, page,
          isUsingDB, cacheDuration, cache, now, sqf, sqfRet,
          initSteps, initRet, extdbProtocol>>

codecVars == <<text, prevText, cRole, cList, parsed, cDone>>
serviceVars == <<fileExists, file, before, call, ret, prev>>
raceVars == <<pc, snap, arg, res>>

\* The variables of the parts that take no step in the runs of the codec and
\* of the service.
bridgeVars == <<usePterodactyl, remote, remoteBefore, trace>>
dbVars == <<rows, audit, sess, dbRet>>
cmdVars == <<adminRoleId, interaction, managerOps, replies>>
authVars == <<request, steamId, page>>
sqfVars == <<isUsingDB, cacheDuration, cache, now, sqf, sqfRet>>
initVars == <<initSteps, initRet, extdbProtocol>>
lateVars == <<cmdVars, authVars, sqfVars, initVars>>
extVars == <<raceVars, bridgeVars, dbVars, lateVars>>

NoValue == "none"

-----------------------------------------------------------------------------
(* Characters and the character classes the regular expressions use.       *)

WS == {" ", "\t", "\n", "\r"}
Digits == {"0", "1", "2", "3", "4", "5", "6", "7", "8", "9"}
Quotes == {"'", "\""}

Min(S) == CHOOSE x \in S : \A y \in S : x <= y
Max(S) == CHOOSE x \in S : \A y \in S : x >= y

\* The literal words of the pattern.
kIf == <<"i", "f">>
kType == <<"_", "t", "y", "p", "e">>
kIsEqualTo == <<"i", "s", "E", "q", "u", "a", "l", "T", "o">>
kThen == <<"t", "h", "e", "n">>
kReturn == <<"_", "r", "e", "t", "u", "r", "n">>

\* config.whitelistRoles.map((r) => r.name), in configuration order.
whitelistRoles ==
    << <<"S", "3">>,
       <<"C", "A", "S">>,
       <<"S", "1">>,
       <<"O", "P", "F", "O", "R">>,
       <<"A", "L", "L">>,
       <<"A", "D", "M", "I", "N">>,
       <<"M", "O", "D", "E", "R", "A", "T", "O", "R">>,
       <<"T", "R", "U", "S", "T", "E", "D">>,
       <<"M", "E", "D", "I", "A">>,
       <<"C", "U", "R", "A", "T", "O", "R">>,
       <<"D", "E", "V", "E", "L", "O", "P", "E", "R">> >>

validRoles == {whitelistRoles[i] : i \in 1..Len(whitelistRoles)}

\* String.prototype.toUpperCase on the letters the inputs use.
UpperOf ==
    [c \in {"a", "b", "c", "d", "e", "f", "g", "h", "i", "j", "k", "l", "m",
            "n", "o", "p", "q", "r", "s", "t", "u", "v", "w", "x", "y", "z"} |->
        CASE c = "a" -> "A" [] c = "b" -> "B" [] c = "c" -> "C" [] c = "d" -> "D"
          [] c = "e" -> "E" [] c = "f" -> "F" [] c = "g" -> "G" [] c = "h" -> "H"
          [] c = "i" -> "I" [] c = "j" -> "J" [] c = "k" -> "K" [] c = "l" -> "L"
          [] c = "m" -> "M" [] c = "n" -> "N" [] c = "o" -> "O" [] c = "p" -> "P"
          [] c = "q" -> "Q" [] c = "r" -> "R" [] c = "s" -> "S" [] c = "t" -> "T"
          [] c = "u" -> "U" [] c = "v" -> "V" [] c = "w" -> "W" [] c = "x" -> "X"
          [] c = "y" -> "Y" [] c = "z" -> "Z"]

toUpperCase(s) ==
    [k \in 1..Len(s) |-> IF s[k] \in DOMAIN UpperOf THEN UpperOf[s[k]] ELSE s[k]]

-----------------------------------------------------------------------------
(* The pattern                                                             *)
(*   if\s*\(\s*_type\s+isEqualTo\s+['"]ROLE['"]\s*\)\s*then\s*\{           *)
(*      [^}]*_return\s*=\s*\[ BODY \]                                      *)
(* where BODY is ([^\]]+) in parseContent and [^\]]* in                    *)
(* updateWhitelistInContent.  The configured role names hold no regular    *)
(* expression metacharacter, so ROLE matches literally.                    *)

\* The literal lit occurs in t at position i.
LitAt(t, i, lit) ==
    /\ i + Len(lit) - 1 <= Len(t)
    /\ \A k \in 1..Len(lit) : t[i + k - 1] = lit[k]

\* The character at position i of t is one of set.
CharAt(t, i, set) == i >= 1 /\ i <= Len(t) /\ t[i] \in set

\* \s* from position i, greedy: the position of the first non-blank.  Every
\* \s* and \s+ of the pattern is followed by a non-blank literal, so the
\* greedy choice is the only one that can match.
RECURSIVE SkipWs(_, _)
SkipWs(t, i) == IF i <= Len(t) /\ t[i] \in WS THEN SkipWs(t, i + 1) ELSE i

\* The first position >= from at which t holds character c; 0 when none.
IndexFrom(t, from, c) ==
    IF \E k \in from..Len(t) : t[k] = c
    THEN CHOOSE k \in from..Len(t) :
            /\ t[k] = c
            /\ \A j \in from..(k - 1) : t[j] # c
    ELSE 0

\* if\s*\(\s*_type\s+isEqualTo\s+['"]ROLE['"]\s*\)\s*then\s*\{  matched at
\* position s: the position after the brace, 0 when it does not match there.
GuardEnd(t, s, role) ==
    LET b == SkipWs(t, s + 2)             \* if \s*
        c == SkipWs(t, b + 1)             \* \( \s*
        d == c + 5                        \* _type
        e == SkipWs(t, d)                 \* \s+
        f == e + 9                        \* isEqualTo
        g == SkipWs(t, f)                 \* \s+
        h == g + 1 + Len(role)            \* ['"] ROLE
        i == SkipWs(t, h + 1)             \* ['"] \s*
        j == SkipWs(t, i + 1)             \* \) \s*
        k == SkipWs(t, j + 4)             \* then \s*
    IN  IF /\ LitAt(t, s, kIf)
           /\ CharAt(t, b, {"("})
           /\ LitAt(t, c, kType)
           /\ e > d
           /\ LitAt(t, e, kIsEqualTo)
           /\ g > f
           /\ CharAt(t, g, Quotes)
           /\ LitAt(t, g + 1, role)
           /\ CharAt(t, h, Quotes)
           /\ CharAt(t, i, {")"})
           /\ LitAt(t, j, kThen)
           /\ CharAt(t, k, {"{"})
        THEN k + 1
        ELSE 0

\* _return\s*=\s*\[  matched at position p: the position of the bracket, 0
\* when it does not match there.
ReturnOpen(t, p) ==
    LET a == SkipWs(t, p + 7)             \* _return \s*
        b == SkipWs(t, a + 1)             \* = \s*
    IN  IF /\ LitAt(t, p, kReturn)
           /\ CharAt(t, a, {"="})
           /\ CharAt(t, b, {"["})
        THEN b
        ELSE 0

\* BODY \]  after the bracket at position open: the position of the first
\* closing bracket, when there is one and at least minBody characters lie
\* before it; 0 otherwise.
BodyClose(t, open, minBody) ==
    LET close == IndexFrom(t, open + 1, "]")
    IN  IF close > 0 /\ close - open - 1 >= minBody THEN close ELSE 0

\* [^}]*_return\s*=\s*\[ BODY \]  from position h, the end of the guard.
\* [^}]* is greedy and backtracks: of the positions at which the rest of the
\* pattern matches, the last one reachable without crossing a closing brace.
ReturnCandidates(t, h, minBody) ==
    LET brace == IndexFrom(t, h, "}")
        limit == IF brace = 0 THEN Len(t) ELSE brace - 1
    IN  {p \in h..limit :
            /\ t[p] = "_"
            /\ ReturnOpen(t, p) > 0
            /\ BodyClose(t, ReturnOpen(t, p), minBody) > 0}

NoMatch == [found |-> FALSE, start |-> 0, open |-> 0, close |-> 0]

\* The whole pattern tried at start position s.  open and close are the
\* positions of the list's brackets.
MatchAt(t, s, role, minBody) ==
    LET h == GuardEnd(t, s, role)
    IN  IF h = 0 THEN NoMatch
        ELSE LET candidates == ReturnCandidates(t, h, minBody)
             IN  IF candidates = {} THEN NoMatch
                 ELSE LET open == ReturnOpen(t, Max(candidates))
                      IN  [found |-> TRUE, start |-> s, open |-> open,
                           close |-> BodyClose(t, open, minBody)]

\* String.prototype.match / replace without the g flag: the match at the
\* leftmost start position.
leftmostMatch(t, role, minBody, starts) ==
    IF starts = {} THEN NoMatch
    ELSE MatchAt(t, Min(starts), role, minBody)

FindBlock(t, role, minBody) ==
    leftmostMatch(t, role, minBody,
                  {s \in 1..Len(t) :
                      t[s] = "i" /\ MatchAt(t, s, role, minBody).found})

\* content.match(pattern) of parseContent: the body is ([^\]]+).
parsePattern(t, role) == FindBlock(t, role, 1)

\* The pattern of updateWhitelistInContent: the body is [^\]]*.
updatePattern(t, role) == FindBlock(t, role, 0)

-----------------------------------------------------------------------------
(* parseContent                                                            *)

\* String.prototype.split(',').
RECURSIVE split(_)
split(s) ==
    LET k == IndexFrom(s, 1, ",")
    IN  IF k = 0 THEN <<s>>
        ELSE <<SubSeq(s, 1, k - 1)>> \o split(SubSeq(s, k + 1, Len(s)))

\* String.prototype.trim().
trim(s) ==
    LET ks == {k \in 1..Len(s) : s[k] \notin WS}
    IN  IF ks = {} THEN <<>> ELSE SubSeq(s, Min(ks), Max(ks))

\* uid.replace(/['"]/g, '').
IsNotQuote(c) == c \notin Quotes
stripQuotes(s) == SelectSeq(s, IsNotQuote)

\* A faulty filter: without the /^\d+$/ test every non-empty token passes.
isNonEmptyToken(s) == s # <<>>

\* uid && uid !== '' && uid.match(/^\d+$/).
isDigitString(s) == s # <<>> /\ \A k \in 1..Len(s) : s[k] \in Digits

\* uidsString.split(',').map(trim, strip quotes).filter(digits only).
extractUids(uidsString) ==
    LET parts == split(uidsString)
        cleaned == [k \in 1..Len(parts) |-> stripQuotes(trim(parts[k]))]
    IN  SelectSeq(cleaned, isDigitString)

\* One iteration of the loop of parseContent: whitelists.set(role, ...).
\* if (match) { uidsString = match[1]; ... } else { [] }.
matchedUids(content, m) ==
    IF m.found
    THEN extractUids(SubSeq(content, m.open + 1, m.close - 1))
    ELSE <<>>

parseRole(content, role) == matchedUids(content, parsePattern(content, role))

\* parseContent: a Map with one key per configured role.
parseContent(content) == [role \in validRoles |-> parseRole(content, role)]

-----------------------------------------------------------------------------
(* updateWhitelistInContent                                                *)

\* A faulty join: join('\n'), the entries are not separated by commas.
RECURSIVE formatUidsNoComma(_)
formatUidsNoComma(uids) ==
    IF uids = <<>> THEN <<>>
    ELSE <<"\t", "\t", "'">> \o Head(uids) \o <<"'">>
         \o (IF Len(uids) > 1 THEN <<"\n">> \o formatUidsNoComma(Tail(uids))
             ELSE <<>>)

\* uids.map((uid) => `\t\t'${uid}'`).join(',\n').
RECURSIVE formatUids(_)
formatUids(uids) ==
    IF uids = <<>> THEN <<>>
    ELSE <<"\t", "\t", "'">> \o Head(uids) \o <<"'">>
         \o (IF Len(uids) > 1 THEN <<",", "\n">> \o formatUids(Tail(uids))
             ELSE <<>>)

\* formattedUids ? `\n${formattedUids}\n\t` : '\n\t'.
replacementOf(uids) ==
    IF formatUids(uids) # <<>>
    THEN <<"\n">> \o formatUids(uids) \o <<"\n", "\t">>
    ELSE <<"\n", "\t">>

\* A faulty replacement: `$1${replacement}`, the closing bracket is lost.
updateWithoutGroup2(content, role, uids) ==
    LET m == updatePattern(content, role)
    IN  IF m.found
        THEN SubSeq(content, 1, m.open) \o replacementOf(uids)
             \o SubSeq(content, m.close + 1, Len(content))
        ELSE content

\* content.replace(pattern, `$1${replacement}$2`): group 1 ends with the
\* opening bracket and group 2 is the closing bracket, so the replacement
\* takes the place of the characters between them; without a match the
\* content is returned as it is.  The replacement starts with a line feed
\* and the uids are digit strings, so $1 and $2 are the only substitutions.
replaceMatch(content, uids, m) ==
    IF m.found
    THEN SubSeq(content, 1, m.open) \o replacementOf(uids)
         \o SubSeq(content, m.close, Len(content))
    ELSE content

updateWhitelistInContent(content, role, uids) ==
    replaceMatch(content, uids, updatePattern(content, role))

-----------------------------------------------------------------------------
(* WhitelistService: addUid, removeUid and getUids.  Each of them          *)
(* is a function of the file (whether it exists, and its content) and the  *)
(* arguments, and yields how the call ends and the content of the file     *)
(* afterwards.                                                             *)

\* The length of a Steam64 identifier: /^\d{17}$/.
UidLen == 17

\* uid.match(/^\d{17}$/).
isSteamUid(uid) == Len(uid) = UidLen /\ \A k \in 1..Len(uid) : uid[k] \in Digits

\* Array.prototype.includes.
includes(list, x) == \E k \in 1..Len(list) : list[k] = x

\* return { success, message }: msg names which of the messages it is.
Returned(success, msg) ==
    [kind |-> "return", success |-> success, msg |-> msg, value |-> <<>>]

\* A rejected promise: readFile found no file.
Thrown(msg) == [kind |-> "throw", success |-> FALSE, msg |-> msg, value |-> <<>>]

\* A resolved promise carrying a list or a Map.
Value(v) == [kind |-> "return", success |-> TRUE, msg |-> "value", value |-> v]

Outcome(r, content) == [ret |-> r, content |-> content]

\* addUid once the file is read: currentUids is whitelists.get(normalizedRole).
addToList(content, normalizedRole, uid, currentUids) ==
    IF includes(currentUids, uid)
    THEN Outcome(Returned(FALSE, "AlreadyWhitelisted"), content)
    ELSE Outcome(Returned(TRUE, "Added"),
                 updateWhitelistInContent(content, normalizedRole,
                     Append(currentUids, uid)))

\* A faulty addUid: the role is validated in upper case but the list is
\* looked up and rewritten under the role as given.
addUidRawRole(exists, content, role, uid) ==
    IF toUpperCase(role) \notin validRoles
    THEN [ret |-> Returned(FALSE, "InvalidRole"), content |-> content]
    ELSE IF ~isSteamUid(uid)
    THEN [ret |-> Returned(FALSE, "InvalidUidFormat"), content |-> content]
    ELSE IF ~exists
    THEN [ret |-> Thrown("FileNotFound"), content |-> content]
    ELSE LET currentUids == IF role \in validRoles
                            THEN parseRole(content, role) ELSE <<>>
         IN  IF includes(currentUids, uid)
             THEN [ret |-> Returned(FALSE, "AlreadyWhitelisted"), content |-> content]
             ELSE [ret |-> Returned(TRUE, "Added"),
                   content |-> updateWhitelistInContent(content, role,
                                   Append(currentUids, uid))]

\* A faulty addUid: the list is not asked whether it holds the identifier.
addUidNoCheck(exists, content, role, uid) ==
    LET normalizedRole == toUpperCase(role)
    IN  IF normalizedRole \notin validRoles
        THEN [ret |-> Returned(FALSE, "InvalidRole"), content |-> content]
        ELSE IF ~isSteamUid(uid)
        THEN [ret |-> Returned(FALSE, "InvalidUidFormat"), content |-> content]
        ELSE IF ~exists
        THEN [ret |-> Thrown("FileNotFound"), content |-> content]
        ELSE [ret |-> Returned(TRUE, "Added"),
              content |-> updateWhitelistInContent(content, normalizedRole,
                              Append(parseRole(content, normalizedRole), uid))]

\* addUid with the identifier checked before the role.
addUidUidFirst(exists, content, role, uid) ==
    IF ~isSteamUid(uid)
    THEN Outcome(Returned(FALSE, "InvalidUidFormat"), content)
    ELSE IF toUpperCase(role) \notin validRoles
    THEN Outcome(Returned(FALSE, "InvalidRole"), content)
    ELSE IF ~exists
    THEN Outcome(Thrown("FileNotFound"), content)
    ELSE addToList(content, toUpperCase(role), uid,
                   parseContent(content)[toUpperCase(role)])

addUid(exists, content, role, uid) ==
    LET normalizedRole == toUpperCase(role)
    IN  IF normalizedRole \notin validRoles
        THEN Outcome(Returned(FALSE, "InvalidRole"), content)
        ELSE IF ~isSteamUid(uid)
        THEN Outcome(Returned(FALSE, "InvalidUidFormat"), content)
        ELSE IF ~exists
        THEN Outcome(Thrown("FileNotFound"), content)
        ELSE addToList(content, normalizedRole, uid,
                       parseContent(content)[normalizedRole])

\* removeUid once the file is read: currentUids is
\* whitelists.get(normalizedRole) || [].
removeFromList(content, normalizedRole, uid, currentUids) ==
    LET IsOther(u) == u # uid
    IN  IF ~includes(currentUids, uid)
        THEN Outcome(Returned(FALSE, "NotWhitelisted"), content)
        ELSE Outcome(Returned(TRUE, "Removed"),
                     updateWhitelistInContent(content, normalizedRole,
                         SelectSeq(currentUids, IsOther)))

\* A faulty removeUid: the filter keeps the identifier and drops the others.
removeUidKeepsUid(exists, content, role, uid) ==
    LET normalizedRole == toUpperCase(role)
    IN  IF normalizedRole \notin validRoles
        THEN [ret |-> Returned(FALSE, "InvalidRole"), content |-> content]
        ELSE IF ~exists
        THEN [ret |-> Thrown("FileNotFound"), content |-> content]
        ELSE LET currentUids == parseRole(content, normalizedRole)
                 IsUid(u) == u = uid
             IN  IF ~includes(currentUids, uid)
                 THEN [ret |-> Returned(FALSE, "NotWhitelisted"), content |-> content]
                 ELSE [ret |-> Returned(TRUE, "Removed"),
                       content |-> updateWhitelistInContent(content, normalizedRole,
                                       SelectSeq(currentUids, IsUid))]

\* A faulty removeUid: the list is not asked whether it holds the identifier.
removeUidNoCheck(exists, content, role, uid) ==
    LET normalizedRole == toUpperCase(role)
    IN  IF normalizedRole \notin validRoles
        THEN [ret |-> Returned(FALSE, "InvalidRole"), content |-> content]
        ELSE IF ~exists
        THEN [ret |-> Thrown("FileNotFound"), content |-> content]
        ELSE LET currentUids == parseRole(content, normalizedRole)
                 IsOther(u) == u # uid
             IN  [ret |-> Returned(TRUE, "Removed"),
                  content |-> updateWhitelistInContent(content, normalizedRole,
                                  SelectSeq(currentUids, IsOther))]

\* A faulty removeUid: the file is read before the role is validated.
removeUidReadsFirst(exists, content, role, uid) ==
    LET normalizedRole == toUpperCase(role)
    IN  IF ~exists
        THEN [ret |-> Thrown("FileNotFound"), content |-> content]
        ELSE IF normalizedRole \notin validRoles
        THEN [ret |-> Returned(FALSE, "InvalidRole"), content |-> content]
        ELSE LET currentUids == parseRole(content, normalizedRole)
                 IsOther(u) == u # uid
             IN  IF ~includes(currentUids, uid)
                 THEN [ret |-> Returned(FALSE, "NotWhitelisted"), content |-> content]
                 ELSE [ret |-> Returned(TRUE, "Removed"),
                       content |-> updateWhitelistInContent(content, normalizedRole,
                                       SelectSeq(currentUids, IsOther))]

removeUid(exists, content, role, uid) ==
    LET normalizedRole == toUpperCase(role)
    IN  IF normalizedRole \notin validRoles
        THEN Outcome(Returned(FALSE, "InvalidRole"), content)
        ELSE IF ~exists
        THEN Outcome(Thrown("FileNotFound"), content)
        ELSE removeFromList(content, normalizedRole, uid,
                            parseContent(content)[normalizedRole])

\* A faulty getUids: whitelists.get(role) || [], the role as given.
getUidsRawRole(exists, content, role) ==
    IF ~exists
    THEN [ret |-> Thrown("FileNotFound"), content |-> content]
    ELSE IF role \in validRoles
    THEN [ret |-> Value(parseRole(content, role)), content |-> content]
    ELSE [ret |-> Value(<<>>), content |-> content]

\* whitelists.get(role.toUpperCase()) || [].
getUids(exists, content, role) ==
    IF ~exists
    THEN Outcome(Thrown("FileNotFound"), content)
    ELSE IF toUpperCase(role) \in validRoles
    THEN Outcome(Value(parseContent(content)[toUpperCase(role)]), content)
    ELSE Outcome(Value(<<>>), content)

\* getAllWhitelists: parseWhitelist(), the Map of every role.
getAllWhitelists(exists, content) ==
    IF ~exists
    THEN Outcome(Thrown("FileNotFound"), content)
    ELSE Outcome(Value(parseContent(content)), content)

-----------------------------------------------------------------------------
(* Whitelist files.  The documents are written the way whitelist.sqf and   *)
(* the sample of whitelist.test.js are: a header, one guarded block per    *)
(* role, and the closing _return.                                          *)

\* How many distinct well-formed identifiers the calls draw from.
NumUids == 2

\* The longest list handed to updateWhitelistInContent.
MaxListLen == 2

uidPrefix ==
    <<"7", "6", "5", "6", "1", "1", "9", "8", "0", "0", "0", "0", "0", "0", "0", "0">>

digitOf == <<"1", "2", "3", "4", "5", "6", "7", "8", "9">>

\* '7656119800000000n', the identifiers of the test sample.
Uid(n) == uidPrefix \o <<digitOf[n]>>

Uids == {Uid(n) : n \in 1..NumUids}

\* private _return = [];
header ==
    <<"p", "r", "i", "v", "a", "t", "e", " ">> \o kReturn
    \o <<" ", "=", " ", "[", "]", ";", "\n">>

\* _return;
trailer == kReturn \o <<";">>

\* if (_type isEqualTo 'ROLE') then {
guardText(role, q) ==
    kIf \o <<" ", "(">> \o kType \o <<" ">> \o kIsEqualTo \o <<" ", q>> \o role
    \o <<q, ")", " ">> \o kThen \o <<" ", "{">>

\* The lines of a list: one quoted identifier per line.
RECURSIVE entryLines(_, _)
entryLines(uids, q) ==
    IF uids = <<>> THEN <<>>
    ELSE <<"\n", "\t", "\t", q>> \o Head(uids) \o <<q>>
         \o (IF Len(uids) > 1 THEN <<",">> ELSE <<>>)
         \o entryLines(Tail(uids), q)

\* _return = [ ... ];
listText(uids, q) ==
    kReturn \o <<" ", "=", " ", "[">> \o entryLines(uids, q) \o <<"\n", "\t", "]", ";">>

\* One guarded block.
blockText(role, q, uids) ==
    guardText(role, q) \o <<"\n", "\t">> \o listText(uids, q) \o <<"\n", "}", ";", "\n">>

RECURSIVE blocksText(_, _, _)
blocksText(roles, q, lists) ==
    IF roles = <<>> THEN <<>>
    ELSE blockText(Head(roles), q, lists[Head(roles)])
         \o blocksText(Tail(roles), q, lists)

\* A complete file: every configured role has one block, in configuration
\* order, with the lists given.
wellFormedDoc(q, lists) == header \o blocksText(whitelistRoles, q, lists) \o trailer

rS3 == whitelistRoles[1]
rAdmin == whitelistRoles[6]
rDeveloper == whitelistRoles[11]

\* The lists of the sample, cut down to two identifiers.
sampleLists(adminList) ==
    [role \in validRoles |->
        IF role = rS3 THEN <<Uid(1), Uid(2)>>
        ELSE IF role = rAdmin THEN adminList
        ELSE IF role = rDeveloper THEN <<Uid(2)>>
        ELSE <<>>]

WellFormedDocs ==
    {wellFormedDoc(c[1], sampleLists(c[2])) :
        c \in {<<"'", <<Uid(2), <<"4", "2">>, Uid(1)>>>>, <<"\"", <<>>>>}}

\* Hand-edited and damaged files.
\* An ADMIN block whose list is written [] with nothing between the brackets.
emptyBracketDoc ==
    header \o guardText(rAdmin, "'") \o <<" ">> \o kReturn \o <<"=", "[", "]", ";", "}", ";">>

\* No block for ADMIN at all.
noAdminDoc == header \o blockText(rS3, "'", <<Uid(1)>>) \o trailer

\* The ADMIN guard twice: the first list is [], the second holds an identifier.
twoGuardsEmptyFirstDoc ==
    header \o guardText(rAdmin, "'") \o <<" ">> \o kReturn \o <<"=", "[", "]", ";", "}", ";", "\n">>
    \o blockText(rAdmin, "'", <<Uid(1)>>)

\* The ADMIN guard twice, both lists non-empty.
twoGuardsDoc ==
    blockText(rAdmin, "'", <<Uid(1)>>) \o blockText(rAdmin, "'", <<Uid(2)>>)

\* A comment with a closing brace between the guard and the list.
braceCommentDoc ==
    guardText(rAdmin, "'") \o <<"/", "*", "}", "*", "/">> \o listText(<<Uid(1)>>, "'")
    \o <<"}", ";">>

\* Entries that are not identifiers, an unquoted one, and blanks.
junkEntriesDoc ==
    guardText(rAdmin, "\"") \o kReturn \o <<"=", "[", "'", "x", "'", ",", " ">>
    \o Uid(1) \o <<" ", ",", "'", "4", " ", "2", "'", ",", "\"", "4", "2", "\"", ",", "]", ";", "}", ";">>

DamagedDocs ==
    {emptyBracketDoc, noAdminDoc, twoGuardsEmptyFirstDoc, twoGuardsDoc,
     braceCommentDoc, junkEntriesDoc, <<>>}

-----------------------------------------------------------------------------
(* The codec on its own: updateWhitelistInContent and parseContent applied *)
(* to documents and lists drawn from bounded sets.                         *)

CodecDocs == WellFormedDocs \cup DamagedDocs

\* Digit strings: the identifiers and a short one.
CodecUids == Uids \cup {<<"4", "2">>}

RECURSIVE SeqsUpTo(_, _)
SeqsUpTo(S, n) ==
    IF n = 0 THEN {<<>>}
    ELSE SeqsUpTo(S, n - 1)
         \cup {Append(l, x) : l \in {m \in SeqsUpTo(S, n - 1) : Len(m) = n - 1}, x \in S}

CodecLists == SeqsUpTo(CodecUids, MaxListLen)

idleCall == [op |-> NoValue, role |-> <<>>, uid |-> <<>>]
idleRet == [kind |-> NoValue, success |-> FALSE, msg |-> NoValue, value |-> <<>>]
idlePrev == [same |-> FALSE, ok |-> FALSE]

\* The two concurrent callers.
Procs == {1, 2}

RaceIdle ==
    /\ pc = [p \in Procs |-> "idle"]
    /\ snap = [p \in Procs |-> <<>>]
    /\ arg = [p \in Procs |-> <<>>]
    /\ res = [p \in Procs |-> idleRet]

BridgeIdle ==
    /\ usePterodactyl = FALSE
    /\ remote = <<>>
    /\ remoteBefore = <<>>
    /\ trace = <<>>

\* The client sessions of the database.
Sessions == {1, 2}

idleSession == [pc |-> "idle", uid |-> NoValue, type |-> NoValue,
                name |-> NoValue, by |-> NoValue]
idleDbRet == [op |-> NoValue, uid |-> NoValue, type |-> NoValue,
              result |-> NoValue, logged |-> FALSE]

DbIdle ==
    /\ rows = <<>>
    /\ audit = <<>>
    /\ sess = [s \in Sessions |-> idleSession]
    /\ dbRet = idleDbRet

\* The types QS_fnc_whitelistDB is called with in the model.
SqfTypes == {"ADMIN", "S3"}

\* interaction.member is null outside a guild.
noMember == [present |-> FALSE, roles |-> {}]
idleInteraction == [member |-> noMember, subcommand |-> NoValue]

CmdIdle ==
    /\ adminRoleId = NoValue
    /\ interaction = idleInteraction
    /\ managerOps = <<>>
    /\ replies = <<>>

\* PHP null and a PHP string.
phpNull == [null |-> TRUE, value |-> <<>>]
phpString(v) == [null |-> FALSE, value |-> v]

idleRequest ==
    [params |-> [openid_mode |-> NoValue, present |-> {},
                 openid_claimed_id |-> <<>>],
     verify |-> NoValue, name |-> NoValue, dbOk |-> FALSE]

AuthIdle ==
    /\ request = idleRequest
    /\ steamId = phpNull
    /\ page = NoValue

\* A missionNamespace variable nobody has set, and one that holds v;
\* getVariable [name, default] reads it.
undefinedFlag == [defined |-> FALSE, value |-> FALSE]
undefinedNumber == [defined |-> FALSE, value |-> 0]
undefinedText == [defined |-> FALSE, value |-> ""]
setVariable(v) == [defined |-> TRUE, value |-> v]
getVariable(var, default) == IF var.defined THEN var.value ELSE default

\* What the extension answers: the text, and the array parseSimpleArray
\* makes of it.
noReply == [raw |-> "", parsed |-> <<>>]

idleSqf == [pc |-> "idle", type |-> NoValue, forceRefresh |-> FALSE,
            currentTime |-> 0, timeout |-> 0]
idleSqfRet == [type |-> NoValue, forceRefresh |-> FALSE, value |-> <<>>,
               queried |-> FALSE, at |-> 0,
               threw |-> FALSE, timedOut |-> FALSE, reply |-> noReply]

SqfIdle ==
    /\ isUsingDB = undefinedFlag
    /\ cacheDuration = undefinedNumber
    /\ cache = [t \in SqfTypes |-> [list |-> <<>>, time |-> 0]]
    /\ now = 0
    /\ sqf = idleSqf
    /\ sqfRet = idleSqfRet

idleInitRet == [called |-> FALSE, value |-> FALSE, isServer |-> FALSE,
                replies |-> <<>>]

InitIdle ==
    /\ initSteps = <<>>
    /\ initRet = idleInitRet
    /\ extdbProtocol = undefinedText

LateIdle == CmdIdle /\ AuthIdle /\ SqfIdle /\ InitIdle

ExtIdle == RaceIdle /\ BridgeIdle /\ DbIdle /\ LateIdle

ServiceIdle ==
    /\ fileExists = FALSE
    /\ file = <<>>
    /\ before = <<>>
    /\ call = idleCall
    /\ ret = idleRet
    /\ prev = idlePrev

InitCodec ==
    /\ text \in CodecDocs
    /\ prevText = text
    /\ cRole = <<>>
    /\ cList = <<>>
    /\ parsed = [role \in validRoles |-> <<>>]
    /\ cDone = [updated |-> FALSE, parsed |-> FALSE]
    /\ ServiceIdle
    /\ ExtIdle

\* updateWhitelistInContent(text, role, uids), once per run.
Serialize(role, uids) ==
    /\ ~cDone.updated
    /\ prevText' = text
    /\ text' = updateWhitelistInContent(text, role, uids)
    /\ cRole' = role
    /\ cList' = uids
    /\ parsed' = [r \in validRoles |-> <<>>]
    /\ cDone' = [updated |-> TRUE, parsed |-> FALSE]
    /\ UNCHANGED serviceVars
    /\ UNCHANGED extVars

\* parseContent(text).
Parse ==
    /\ ~cDone.parsed
    /\ parsed' = parseContent(text)
    /\ cDone' = [cDone EXCEPT !.parsed = TRUE]
    /\ UNCHANGED <<text, prevText, cRole, cList>>
    /\ UNCHANGED serviceVars
    /\ UNCHANGED extVars

NextCodec ==
    \/ \E role \in validRoles, uids \in CodecLists : Serialize(role, uids)
    \/ Parse

SpecCodec == InitCodec /\ [][NextCodec]_vars

-----------------------------------------------------------------------------
(* The claims about the codec.                                             *)

\* The position of the quoted name of role in t: the one place a complete
\* file names the role.
QuotedAt(t, k, role) ==
    /\ t[k] \in Quotes
    /\ LitAt(t, k + 1, role)
    /\ CharAt(t, k + 1 + Len(role), Quotes)

NamePos(t, role) == Min({k \in 1..Len(t) : QuotedAt(t, k, role)})

\* The brackets of the list of role in a complete file: the first opening
\* bracket after the role's name and the first closing bracket after it.
ListOpen(t, role) == IndexFrom(t, NamePos(t, role), "[")
ListClose(t, role) == IndexFrom(t, ListOpen(t, role), "]")

\* C1: in a file in which every configured role has one well-formed block,
\* updateWhitelistInContent(text, R, L) leaves every character up to and
\* including the opening bracket of R's list, and every character from its
\* closing bracket on, as it was.
C1_SurgicalReplace ==
    (cDone.updated /\ prevText \in WellFormedDocs) =>
        LET i == ListOpen(prevText, cRole)
            j == ListClose(prevText, cRole)
            n == Len(prevText)
            m == Len(text)
        IN  /\ m >= i + (n - j + 1)
            /\ SubSeq(text, 1, i) = SubSeq(prevText, 1, i)
            /\ SubSeq(text, m - (n - j), m) = SubSeq(prevText, j, n)

C1_Witness ==
    /\ cDone.updated
    /\ prevText \in WellFormedDocs
    /\ cRole = rAdmin
    /\ cList = <<Uid(1), <<"4", "2">>>>
    /\ text # prevText

\* C2: round trip.  After updateWhitelistInContent(D, R, L) on a well-formed
\* D with a list L of digit strings, parseContent of the result maps R to L.
C2_RoundTrip ==
    (cDone.updated /\ cDone.parsed /\ prevText \in WellFormedDocs) =>
        parsed[cRole] = cList

C2_Witness ==
    /\ cDone.updated
    /\ cDone.parsed
    /\ prevText \in WellFormedDocs
    /\ cRole = rS3
    /\ cList = <<<<"4", "2">>, Uid(1)>>
    /\ parsed[cRole] = cList

\* The tokens occur in t from position from on, one after the other.
RECURSIVE OccurInOrder(_, _, _)
OccurInOrder(t, tokens, from) ==
    IF tokens = <<>> THEN TRUE
    ELSE LET ks == {k \in from..Len(t) : LitAt(t, k, Head(tokens))}
         IN  /\ ks # {}
             /\ OccurInOrder(t, Tail(tokens), Min(ks) + Len(Head(tokens)))

\* The quoted name of role occurs somewhere in t.
Names(t, role) == \E k \in 1..Len(t) : QuotedAt(t, k, role)

-----------------------------------------------------------------------------
(* The service: calls made one after the other on one file.                *)

rLower == <<"a", "d", "m", "i", "n">>
rBogus == <<"B", "O", "G", "U", "S", "_", "R", "O", "L", "E">>
RoleInputs == {rAdmin, rLower, rBogus}

badUid == <<"i", "n", "v", "a", "l", "i", "d", "-", "u", "i", "d">>
shortUid == <<"4", "2">>
\* The arguments of the calls: every identifier with ADMIN, and one
\* well-formed and one malformed identifier with the other role strings.
AddInputs ==
    ({rAdmin} \X (Uids \cup {badUid, shortUid}))
    \cup ({rLower, rBogus} \X {Uid(1), badUid})
RemoveInputs ==
    ({rAdmin} \X (Uids \cup {shortUid}))
    \cup ({rLower, rBogus} \X {Uid(1)})

\* The files the service starts from: the complete sample and damaged ones.
ServiceDocs ==
    {wellFormedDoc("'", sampleLists(<<Uid(1)>>)),
     emptyBracketDoc, noAdminDoc, twoGuardsEmptyFirstDoc, braceCommentDoc,
     junkEntriesDoc}

CodecIdle ==
    /\ text = <<>>
    /\ prevText = <<>>
    /\ cRole = <<>>
    /\ cList = <<>>
    /\ parsed = [role \in validRoles |-> <<>>]
    /\ cDone = [updated |-> FALSE, parsed |-> FALSE]

Init ==
    /\ \/ fileExists = TRUE /\ file \in ServiceDocs
       \/ fileExists = FALSE /\ file = <<>>
    /\ before = file
    /\ call = idleCall
    /\ ret = idleRet
    /\ prev = idlePrev
    /\ CodecIdle
    /\ ExtIdle

\* One whole call: what it returns or throws, and the file it leaves.
Finish(c, o) ==
    /\ call' = c
    /\ ret' = o.ret
    /\ before' = file
    /\ file' = o.content
    /\ prev' = [same |-> c = call,
                ok |-> c = call /\ ret.kind = "return" /\ ret.success]
    /\ UNCHANGED fileExists
    /\ UNCHANGED codecVars
    /\ UNCHANGED extVars

AddUid(role, uid) ==
    Finish([op |-> "addUid", role |-> role, uid |-> uid],
           addUid(fileExists, file, role, uid))

RemoveUid(role, uid) ==
    Finish([op |-> "removeUid", role |-> role, uid |-> uid],
           removeUid(fileExists, file, role, uid))

GetUids(role) ==
    Finish([op |-> "getUids", role |-> role, uid |-> <<>>],
           getUids(fileExists, file, role))

Next ==
    \/ \E a \in AddInputs : AddUid(a[1], a[2])
    \/ \E a \in RemoveInputs : RemoveUid(a[1], a[2])
    \/ \E role \in RoleInputs : GetUids(role)

Spec == Init /\ [][Next]_vars

-----------------------------------------------------------------------------
(* The claims about the service.                                           *)

\* The role of the last call after case normalisation, and the list the
\* file holds for it, before and after the call.
NormRole == toUpperCase(call.role)
RoleIsValid == NormRole \in validRoles
ListBefore == parseRole(before, NormRole)
ListAfter == parseRole(file, NormRole)

Occurrences(list, x) == Cardinality({k \in 1..Len(list) : list[k] = x})

\* C3: addUid(role, id) called twice in a row, with a valid role and a
\* 17-digit id on an existing file, leaves exactly one occurrence of id in the
\* role's list, and the second call returns the already-whitelisted failure.
C3_AddTwice ==
    (/\ call.op = "addUid"
     /\ prev.same
     /\ fileExists
     /\ RoleIsValid
     /\ isSteamUid(call.uid)) =>
        /\ ret = Returned(FALSE, "AlreadyWhitelisted")
        /\ Occurrences(ListAfter, call.uid) = 1

\* C4: addUid with a valid role and a 17-digit id that the role's list does
\* not hold succeeds, and the list parsed afterwards is the list parsed
\* before followed by id.
C4_AddAppends ==
    (/\ call.op = "addUid"
     /\ fileExists
     /\ RoleIsValid
     /\ isSteamUid(call.uid)
     /\ ~includes(ListBefore, call.uid)) =>
        /\ ret = Returned(TRUE, "Added")
        /\ ListAfter = Append(ListBefore, call.uid)

\* list without x: the entries of list other than x, in their order.
RECURSIVE Without(_, _)
Without(list, x) ==
    IF list = <<>> THEN <<>>
    ELSE IF Head(list) = x THEN Without(Tail(list), x)
    ELSE <<Head(list)>> \o Without(Tail(list), x)

\* C5: removeUid(role, id) on a file whose list for the role holds id
\* succeeds; afterwards the list holds no id, and the other entries are kept
\* in their order.
C5_RemoveDeletes ==
    (/\ call.op = "removeUid"
     /\ fileExists
     /\ RoleIsValid
     /\ includes(ListBefore, call.uid)) =>
        /\ ret = Returned(TRUE, "Removed")
        /\ ~includes(ListAfter, call.uid)
        /\ ListAfter = Without(ListBefore, call.uid)

C5_Witness ==
    /\ call = [op |-> "removeUid", role |-> rAdmin, uid |-> shortUid]
    /\ ret.success
    /\ ListBefore = <<Uid(1), shortUid, Uid(2)>>
    /\ ListAfter = <<Uid(1), Uid(2)>>

\* C6: a removeUid(role, id) right after a successful removeUid(role, id)
\* returns the not-whitelisted failure and leaves the file as it is; and a
\* removeUid of an id the role's list does not hold always returns the
\* not-whitelisted failure.
C6_RemoveTwice ==
    /\ (call.op = "removeUid" /\ prev.same /\ prev.ok) =>
          /\ ret = Returned(FALSE, "NotWhitelisted")
          /\ file = before
    /\ (/\ call.op = "removeUid"
        /\ fileExists
        /\ RoleIsValid
        /\ ~includes(ListBefore, call.uid)) =>
          ret = Returned(FALSE, "NotWhitelisted")

C6_Witness ==
    /\ call.op = "removeUid"
    /\ prev.same
    /\ prev.ok
    /\ ret.msg = "NotWhitelisted"

LocalErrors == {"InvalidRole", "InvalidUidFormat", "AlreadyWhitelisted", "NotWhitelisted"}

\* The arguments and the file of the last call are those of a local
\* validation error.
LocalErrorCase ==
    \/ ~RoleIsValid
    \/ call.op = "addUid" /\ ~isSteamUid(call.uid)
    \/ call.op = "addUid" /\ fileExists /\ includes(ListBefore, call.uid)
    \/ call.op = "removeUid" /\ fileExists /\ ~includes(ListBefore, call.uid)

\* C7: an addUid or removeUid that meets a local validation error (invalid
\* role, invalid identifier format, already whitelisted, not whitelisted)
\* returns a success=false result, throws nothing and writes nothing: the file
\* is the same before and after.
C7_LocalErrorsPure ==
    call.op \in {"addUid", "removeUid"} =>
        /\ LocalErrorCase =>
              /\ ret.kind = "return"
              /\ ~ret.success
              /\ ret.msg \in LocalErrors
              /\ file = before
        /\ ret.msg \in LocalErrors =>
              /\ ret.kind = "return"
              /\ ~ret.success
              /\ file = before

C7_Witness ==
    /\ call = [op |-> "addUid", role |-> rAdmin, uid |-> badUid]
    /\ ~fileExists
    /\ ret = Returned(FALSE, "InvalidUidFormat")

\* C8 as claimed: getUids fails with InvalidRole for a role outside the
\* configured set, and otherwise returns parseContent(content).get(ROLE).
C8_ListRejectsInvalidRole ==
    (call.op = "getUids" /\ fileExists) =>
        IF RoleIsValid
        THEN ret = Value(parseContent(before)[NormRole])
        ELSE ret.msg = "InvalidRole" /\ ~ret.success

\* C8: getUids on an existing file never fails: for a role outside the
\* configured set it returns the empty list, otherwise the list parseContent
\* gives for the upper-cased role; the file is not written.
C8_ListReturnsParsed ==
    (call.op = "getUids" /\ fileExists) =>
        /\ ret.kind = "return"
        /\ ret.msg = "value"
        /\ ret.value = (IF RoleIsValid THEN parseContent(file)[NormRole] ELSE <<>>)
        /\ file = before

C8_Witness ==
    /\ call.op = "getUids"
    /\ call.role = rBogus
    /\ fileExists
    /\ ret = Value(<<>>)
    /\ parseRole(file, rAdmin) # <<>>

\* The last call made with the upper-cased role instead.
CanonicalOutcome ==
    IF call.op = "addUid"
    THEN addUid(fileExists, before, NormRole, call.uid)
    ELSE removeUid(fileExists, before, NormRole, call.uid)

\* C9: addUid and removeUid reject the role iff its upper-cased form is not
\* a configured code, and otherwise end, and leave the file, exactly as the
\* same call with the upper-cased role does.
C9_RoleCaseInsensitive ==
    call.op \in {"addUid", "removeUid"} =>
        /\ ret.msg = "InvalidRole" <=> ~RoleIsValid
        /\ ret = CanonicalOutcome.ret
        /\ file = CanonicalOutcome.content

C9_Witness ==
    /\ call = [op |-> "addUid", role |-> rLower, uid |-> Uid(1)]
    /\ ret = Returned(TRUE, "Added")
    /\ file # before
    /\ parseRole(file, rAdmin) = Append(parseRole(before, rAdmin), Uid(1))

-----------------------------------------------------------------------------
(* Duplicate guards, the two patterns, and sequences of calls.             *)

\* How often the text names the role in quotes: once per guard.
GuardCount(t, role) == Cardinality({k \in 1..Len(t) : QuotedAt(t, k, role)})

\* The tokens of the bracket list of the first guard of role in t.
FirstBlockList(t, role) ==
    extractUids(SubSeq(t, ListOpen(t, role) + 1, ListClose(t, role) - 1))

\* C11 as claimed: when the guard of a role occurs more than once in the
\* text, parseContent returns the list of the first occurrence, whether that
\* list is empty or not, and never the list of a later occurrence.
C11_FirstMatchWins ==
    cDone.parsed =>
        \A role \in validRoles :
            GuardCount(text, role) > 1 =>
                parsed[role] = FirstBlockList(text, role)

\* C12 as claimed: for any text and role, updateWhitelistInContent finds a
\* block to rewrite iff parseContent finds one to read, and it is the same
\* block: the same brackets.
C12_SameBlock ==
    \A role \in validRoles :
        LET p == parsePattern(text, role)
            u == updatePattern(text, role)
        IN  /\ p.found <=> u.found
            /\ p.found => (p.open = u.open /\ p.close = u.close)

NoDuplicates(list) ==
    \A i, j \in 1..Len(list) : list[i] = list[j] => i = j

\* C13: from a file in which the list of every role is free of duplicates,
\* after any sequence of addUid and removeUid calls the parsed list of every
\* role is free of duplicates.
C13_NoDuplicates ==
    fileExists => \A role \in validRoles : NoDuplicates(parseRole(file, role))

C13_Witness ==
    /\ call.op = "addUid"
    /\ ret = Returned(FALSE, "AlreadyWhitelisted")
    /\ prev.same
    /\ prev.ok
    /\ Len(ListAfter) >= 2
    /\ Occurrences(ListAfter, call.uid) = 1

\* The list after one operation applied to a list in the abstract: a
\* successful add appends, a successful remove deletes, a failed operation
\* changes nothing.
Applied(list) ==
    IF ~(ret.kind = "return" /\ ret.success) THEN list
    ELSE IF call.op = "addUid" THEN Append(list, call.uid)
    ELSE IF call.op = "removeUid" THEN Without(list, call.uid)
    ELSE list

\* C14 as claimed: each call starts from the file the call before it left,
\* and the list of its role afterwards is the operation applied to the list
\* before; so the final list is the operations applied in submission order
\* to the initial list.
C14_SubmissionOrder ==
    (call.op \in {"addUid", "removeUid"} /\ fileExists /\ RoleIsValid) =>
        ListAfter = Applied(ListBefore)

-----------------------------------------------------------------------------
(* Two addUid calls in flight on one file.  A call gives way at its two    *)
(* awaits: after readFile it holds the content it read, and the check, the *)
(* rewrite and writeFile work on that content.                             *)

InitRace ==
    /\ \/ fileExists = TRUE /\ file \in ServiceDocs
       \/ fileExists = FALSE /\ file = <<>>
    /\ before = file
    /\ call = idleCall
    /\ ret = idleRet
    /\ prev = idlePrev
    /\ CodecIdle
    /\ pc = [p \in Procs |-> "read"]
    /\ snap = [p \in Procs |-> <<>>]
    /\ arg \in [Procs -> Uids]
    /\ res = [p \in Procs |-> idleRet]
    /\ BridgeIdle
    /\ DbIdle
    /\ LateIdle

\* const content = await this.readFile(): the role and the identifier have
\* passed validation; without a file the call is rejected.
RaceRead(p) ==
    /\ pc[p] = "read"
    /\ IF fileExists
       THEN /\ snap' = [snap EXCEPT ![p] = file]
            /\ pc' = [pc EXCEPT ![p] = "write"]
            /\ UNCHANGED res
       ELSE /\ res' = [res EXCEPT ![p] = Thrown("FileNotFound")]
            /\ pc' = [pc EXCEPT ![p] = "done"]
            /\ UNCHANGED snap
    /\ UNCHANGED <<arg, codecVars, serviceVars, bridgeVars, dbVars, lateVars>>

\* The end of a call whose check and rewrite gave o: writeFile when the
\* check passed, and the return.
RaceFinish(p, o) ==
    /\ pc[p] = "write"
    /\ res' = [res EXCEPT ![p] = o.ret]
    /\ file' = IF o.ret.success THEN o.content ELSE file
    /\ pc' = [pc EXCEPT ![p] = "done"]
    /\ UNCHANGED <<snap, arg, codecVars, fileExists, before, call, ret, prev>>
    /\ UNCHANGED <<bridgeVars, dbVars, lateVars>>

\* A faulty write: the check and the rewrite work on the file as it is at the
\* time of the write, as under a lock.
RaceWriteFresh(p) == RaceFinish(p, addUid(TRUE, file, rAdmin, arg[p]))

\* parseContent(content), the includes check, updateWhitelistInContent and
\* await writeFile(this.filePath, updatedContent), all on the content read
\* earlier: a failed check returns without writing.
RaceWrite(p) == RaceFinish(p, addUid(TRUE, snap[p], rAdmin, arg[p]))

NextRace ==
    \/ \E p \in Procs : RaceRead(p)
    \/ \E p \in Procs : RaceWrite(p)

SpecRace == InitRace /\ [][NextRace]_vars

RaceDone == \A p \in Procs : pc[p] = "done"
BothAdded == \A p \in Procs : res[p] = Returned(TRUE, "Added")
RaceFinal == parseRole(file, rAdmin)

\* C15: no lock and no version check.  When two concurrent addUid calls
\* with different identifiers have both returned success, the file is what
\* one of them made of the content it had read, and it holds both identifiers
\* iff one of the calls read the file after the other wrote it; otherwise one
\* identifier is lost.
C15_LastWriterWins ==
    (RaceDone /\ BothAdded /\ arg[1] # arg[2]) =>
        /\ \E p \in Procs : file = addUid(TRUE, snap[p], rAdmin, arg[p]).content
        /\ (includes(RaceFinal, arg[1]) /\ includes(RaceFinal, arg[2]))
              <=> \/ includes(parseRole(snap[1], rAdmin), arg[2])
                  \/ includes(parseRole(snap[2], rAdmin), arg[1])

\* Both calls returned success and the file, which has an ADMIN block, holds
\* the identifier of one call only.
C15_Witness ==
    /\ RaceDone
    /\ BothAdded
    /\ arg[1] # arg[2]
    /\ parsePattern(file, rAdmin).found
    /\ snap[1] = snap[2]
    /\ includes(RaceFinal, arg[2])
    /\ ~includes(RaceFinal, arg[1])

-----------------------------------------------------------------------------
(* WhitelistManager: the store behind it is the local file, or a temp file *)
(* that is downloaded from the Pterodactyl server before every operation   *)
(* and uploaded after a successful mutation.                               *)

\* The documents the manager starts from.
ManagerDocs == {wellFormedDoc("'", sampleLists(<<Uid(1)>>)), noAdminDoc, emptyBracketDoc}

ManagerCalls ==
    {[op |-> "addUid", role |-> a[1], uid |-> a[2]] :
        a \in ({rAdmin} \X (Uids \cup {badUid})) \cup {<<rBogus, Uid(1)>>}}
    \cup {[op |-> "removeUid", role |-> a[1], uid |-> a[2]] :
        a \in ({rAdmin} \X Uids) \cup {<<rBogus, Uid(1)>>}}
    \cup {[op |-> "getUids", role |-> r, uid |-> <<>>] : r \in {rAdmin, rBogus}}
    \cup {[op |-> "getAllWhitelists", role |-> <<>>, uid |-> <<>>]}

InitManager ==
    /\ usePterodactyl \in BOOLEAN
    /\ IF usePterodactyl
       THEN /\ remote \in ManagerDocs
            /\ fileExists = FALSE
            /\ file = <<>>
       ELSE /\ remote = <<>>
            /\ \/ fileExists = TRUE /\ file \in ManagerDocs
               \/ fileExists = FALSE /\ file = <<>>
    /\ remoteBefore = remote
    /\ trace = <<>>
    /\ before = file
    /\ call = idleCall
    /\ ret = idleRet
    /\ prev = idlePrev
    /\ CodecIdle
    /\ RaceIdle
    /\ DbIdle
    /\ LateIdle

\* service.addUid / removeUid / getUids / getAllWhitelists on the store.
storeOp(c, exists, content) ==
    IF c.op = "addUid" THEN addUid(exists, content, c.role, c.uid)
    ELSE IF c.op = "removeUid" THEN removeUid(exists, content, c.role, c.uid)
    ELSE IF c.op = "getUids" THEN getUids(exists, content, c.role)
    ELSE getAllWhitelists(exists, content)

\* result.message += ' (synced to Pterodactyl server)'.
synced(r) ==
    [r EXCEPT !.msg = IF @ = "Added" THEN "AddedSynced" ELSE "RemovedSynced"]

\* request(): the fetch failed or the response was not ok.
apiError == Thrown("PterodactylApiError")

\* The end of a manager call: how it ended, the local file and the remote
\* file it leaves, the content the store operation started from, and the
\* steps it took.
BridgeEnd(c, r, exists, content, started, rem, steps) ==
    /\ call' = c
    /\ ret' = r
    /\ fileExists' = exists
    /\ file' = content
    /\ before' = started
    /\ remoteBefore' = remote
    /\ remote' = rem
    /\ trace' = steps
    /\ prev' = [same |-> c = call,
                ok |-> c = call /\ ret.kind = "return" /\ ret.success]
    /\ UNCHANGED <<usePterodactyl, codecVars, raceVars, dbVars, lateVars>>

\* getWhitelistService() without Pterodactyl: new WhitelistService() on the
\* configured path, and no sync afterwards.
LocalEnd(c, o) ==
    BridgeEnd(c, o.ret, fileExists, o.content, file, remote, <<"store">>)

ManagerLocal(c) ==
    /\ ~usePterodactyl
    /\ LocalEnd(c, storeOp(c, fileExists, file))

\* await pterodactylService.getWhitelistFile() throws: nothing else happens.
ManagerDownloadFails(c) ==
    /\ usePterodactyl
    /\ BridgeEnd(c, apiError, fileExists, file, file, remote, <<"download">>)

\* A faulty sync: the upload does not depend on result.success.
RemoteEndAlwaysSyncs(c, o, upOk) ==
    IF c.op \in {"addUid", "removeUid"} /\ o.ret.kind = "return"
    THEN IF upOk
         THEN BridgeEnd(c, o.ret, TRUE, o.content, remote, o.content,
                        <<"download", "store", "upload">>)
         ELSE BridgeEnd(c, apiError, TRUE, o.content, remote, remote,
                        <<"download", "store", "upload">>)
    ELSE BridgeEnd(c, o.ret, TRUE, o.content, remote, remote,
                   <<"download", "store">>)

\* After the download was written to the temp file and the store operation
\* gave o: addUid and removeUid sync when result.success, and the upload
\* may fail; getUids and getAllWhitelists return what the store gave.
RemoteEnd(c, o, upOk) ==
    IF c.op \in {"addUid", "removeUid"} /\ o.ret.kind = "return" /\ o.ret.success
    THEN IF upOk
         THEN BridgeEnd(c, synced(o.ret), TRUE, o.content, remote, o.content,
                        <<"download", "store", "upload">>)
         ELSE BridgeEnd(c, apiError, TRUE, o.content, remote, remote,
                        <<"download", "store", "upload">>)
    ELSE BridgeEnd(c, o.ret, TRUE, o.content, remote, remote,
                   <<"download", "store">>)

\* A manager that keeps working on its temp file once it has one, instead
\* of downloading over it.
ManagerRemoteKeepsTemp(c, upOk) ==
    /\ usePterodactyl
    /\ RemoteEnd(c, storeOp(c, TRUE, IF fileExists THEN file ELSE remote), upOk)

ManagerRemote(c, upOk) ==
    /\ usePterodactyl
    /\ RemoteEnd(c, storeOp(c, TRUE, remote), upOk)

NextManager ==
    \/ \E c \in ManagerCalls : ManagerLocal(c)
    \/ \E c \in ManagerCalls : ManagerDownloadFails(c)
    \/ \E c \in ManagerCalls, upOk \in BOOLEAN : ManagerRemote(c, upOk)

SpecManager == InitManager /\ [][NextManager]_vars

Took(step) == \E k \in 1..Len(trace) : trace[k] = step
Mutation == call.op \in {"addUid", "removeUid"}

\* C16: in Pterodactyl mode every manager call starts with the download and
\* the store operation runs on the downloaded text; an upload is made only
\* by addUid and removeUid, after the store operation returned success, and
\* only an upload changes the remote file; a mutation that returned
\* success=false and the two list operations never upload; in local mode a
\* call takes no remote step.
C16_BridgeProtocol ==
    call.op # NoValue =>
        /\ usePterodactyl =>
              /\ trace[1] = "download"
              /\ Took("store") => (trace[2] = "store" /\ before = remoteBefore)
              /\ Took("upload") =>
                    /\ trace = <<"download", "store", "upload">>
                    /\ Mutation
                    /\ storeOp(call, TRUE, before).ret.success
              /\ (Mutation /\ ret.kind = "return" /\ ret.success) => Took("upload")
              /\ (ret.kind = "return" /\ ~ret.success) => ~Took("upload")
              /\ ~Mutation => ~Took("upload")
        /\ remote # remoteBefore => (Took("upload") /\ remote = file)
        /\ ~usePterodactyl => (trace = <<"store">> /\ remote = remoteBefore)

C16_Witness ==
    /\ usePterodactyl
    /\ call = [op |-> "addUid", role |-> rAdmin, uid |-> Uid(2)]
    /\ ret = Returned(TRUE, "AddedSynced")
    /\ trace = <<"download", "store", "upload">>
    /\ remote # remoteBefore
    /\ parseRole(remote, rAdmin) = <<Uid(1), Uid(2)>>

\* ---------------------------------------------------------------------
\* The database variant: the tables of the schema, the stored procedures
\* and WhitelistDatabase::addToWhitelist. Every SQL statement is atomic
\* (autocommit); the statements of concurrent sessions interleave.
\* ---------------------------------------------------------------------

\* SQL NULL.
Null == NoValue

\* The rows of whitelist_types (type_code).
whitelist_types ==
    {"S3", "CAS", "S1", "OPFOR", "ALL", "ADMIN", "MODERATOR", "TRUSTED",
     "MEDIA", "CURATOR", "DEVELOPER"}

\* The largest number of audit rows a behaviour writes.
MaxAudit == 2

\* The inputs of the calls.
DbUids == {"u1"}
DbTypes == {"ADMIN", "S3", "BOGUS"}
DbNames == {Null, "n1"}
phpAddedBy == "web"
procAddedBy == "admin"
removedBy == "mod"

\* The rows of player_whitelist with the key (uid, type).
keyRows(table, uid, type) ==
    {i \in 1..Len(table) :
        table[i].steam_uid = uid /\ table[i].whitelist_type = type}

COALESCE(a, b) == IF a # Null THEN a ELSE b

\* An INSERT without ON DUPLICATE KEY UPDATE on a table without the unique
\* key: a new row at the end of the table, is_active = 1.
plainInsert(table, uid, name, type, by, notes) ==
    Append(table, [steam_uid |-> uid, player_name |-> name,
                   whitelist_type |-> type, added_by |-> by,
                   notes |-> notes, is_active |-> 1])

\* INSERT ... ON DUPLICATE KEY UPDATE under unique_player_whitelist: the
\* row with the key, when there is one, gets the three assignments (and
\* keeps its added_by); otherwise the row is inserted.
upsert(table, uid, name, type, by, notes) ==
    IF keyRows(table, uid, type) # {}
    THEN [i \in 1..Len(table) |->
            IF i \in keyRows(table, uid, type)
            THEN [table[i] EXCEPT
                    !.player_name = COALESCE(name, @),
                    !.is_active = 1,
                    !.notes = COALESCE(notes, @)]
            ELSE table[i]]
    ELSE Append(table, [steam_uid |-> uid, player_name |-> name,
                        whitelist_type |-> type, added_by |-> by,
                        notes |-> notes, is_active |-> 1])

\* DELETE FROM player_whitelist WHERE the key matches.
hardDelete(table, uid, type) ==
    SelectSeq(table, LAMBDA r :
        ~(r.steam_uid = uid /\ r.whitelist_type = type))

\* UPDATE player_whitelist SET is_active = 0 WHERE the key matches.
softDelete(table, uid, type) ==
    [i \in 1..Len(table) |->
        IF i \in keyRows(table, uid, type)
        THEN [table[i] EXCEPT !.is_active = 0]
        ELSE table[i]]

\* The same count without the is_active condition.
hasAnyRow(table, uid, type) == Cardinality(keyRows(table, uid, type)) > 0

\* SELECT COUNT(*) ... WHERE the key matches AND is_active = 1, > 0.
isWhitelisted(table, uid, type) ==
    Cardinality({i \in keyRows(table, uid, type) : table[i].is_active = 1}) > 0

isValidWhitelistType(type) == type \in whitelist_types

auditRow(uid, type, action, by) ==
    [steam_uid |-> uid, whitelist_type |-> type, action |-> action,
     performed_by |-> by]

\* The results of WhitelistDatabase::addToWhitelist.
invalidType ==
    [success |-> FALSE, message |-> "Invalid whitelist type",
     already_existed |-> FALSE]
alreadyWhitelisted ==
    [success |-> TRUE, message |-> "Already whitelisted",
     already_existed |-> TRUE]
successfullyAdded ==
    [success |-> TRUE, message |-> "Successfully added to whitelist",
     already_existed |-> FALSE]
databaseError ==
    [success |-> FALSE, message |-> "Database error",
     already_existed |-> FALSE]

\* The results of the stored procedures.
procDone == [success |-> TRUE, message |-> "OK", already_existed |-> FALSE]
procError == [success |-> FALSE, message |-> "SQL error",
              already_existed |-> FALSE]
checkResult(b) == [success |-> TRUE, message |-> "is_whitelisted",
                   already_existed |-> b]

InFlight == Cardinality({s \in Sessions : sess[s].pc # "idle"})
HasRoom == Len(audit) + InFlight < MaxAudit

\* Session s ends its call with the result r.
dbReturn(s, op, uid, type, r, logged) ==
    /\ sess' = [sess EXCEPT ![s] = idleSession]
    /\ dbRet' = [op |-> op, uid |-> uid, type |-> type,
                 result |-> r, logged |-> logged]

\* Session s goes on to its next statement.
dbGoto(s, next, uid, type, name, by) ==
    /\ sess' = [sess EXCEPT ![s] = [pc |-> next, uid |-> uid, type |-> type,
                                    name |-> name, by |-> by]]
    /\ UNCHANGED dbRet

dbFrame == UNCHANGED <<codecVars, serviceVars, raceVars, bridgeVars, lateVars>>

\* What the end of logAudit would make of the call if the failure of the
\* audit insert reached the catch of addToWhitelist.
phpAuditPropagates(ok) ==
    [result |-> IF ok THEN successfullyAdded ELSE databaseError,
     logged |-> FALSE]

\* What the end of logAudit makes of the call: the failure of the audit
\* insert is caught and written to the error log.
phpAuditOutcome(ok) == [result |-> successfullyAdded, logged |-> ~ok]

\* WhitelistDatabase::addToWhitelist up to the insert: the type check and
\* the isWhitelisted check.
PhpBegin(s, uid, name, type) ==
    /\ sess[s].pc = "idle"
    /\ IF ~isValidWhitelistType(type)
       THEN dbReturn(s, "addToWhitelist", uid, type, invalidType, FALSE)
       ELSE IF isWhitelisted(rows, uid, type)
       THEN dbReturn(s, "addToWhitelist", uid, type, alreadyWhitelisted, FALSE)
       ELSE /\ HasRoom
            /\ dbGoto(s, "insert", uid, type, name, phpAddedBy)
    /\ UNCHANGED <<rows, audit>>
    /\ dbFrame

\* The INSERT ... ON DUPLICATE KEY UPDATE of addToWhitelist; a
\* PDOException ends the call in the catch.
PhpInsert(s, ok) ==
    /\ sess[s].pc = "insert"
    /\ IF ok
       THEN /\ rows' = upsert(rows, sess[s].uid, sess[s].name, sess[s].type,
                           sess[s].by, Null)
            /\ dbGoto(s, "audit", sess[s].uid, sess[s].type, sess[s].name,
                      sess[s].by)
       ELSE /\ UNCHANGED rows
            /\ dbReturn(s, "addToWhitelist", sess[s].uid, sess[s].type,
                        databaseError, FALSE)
    /\ UNCHANGED audit
    /\ dbFrame

\* logAudit and the return of addToWhitelist.
PhpAudit(s, ok) ==
    /\ sess[s].pc = "audit"
    /\ audit' = IF ok
                THEN Append(audit, auditRow(sess[s].uid, sess[s].type, "ADD",
                                            sess[s].by))
                ELSE audit
    /\ dbReturn(s, "addToWhitelist", sess[s].uid, sess[s].type,
                phpAuditOutcome(ok).result, phpAuditOutcome(ok).logged)
    /\ UNCHANGED rows
    /\ dbFrame

\* The first statement of the procedure AddToWhitelist; the foreign key
\* on whitelist_type rejects a type that is not in whitelist_types.
ProcAddInsert(s, uid, name, type) ==
    /\ sess[s].pc = "idle"
    /\ IF ~isValidWhitelistType(type)
       THEN /\ UNCHANGED rows
            /\ dbReturn(s, "AddToWhitelist", uid, type, procError, FALSE)
       ELSE /\ HasRoom
            /\ rows' = upsert(rows, uid, name, type, procAddedBy, Null)
            /\ dbGoto(s, "procAudit", uid, type, name, procAddedBy)
    /\ UNCHANGED audit
    /\ dbFrame

\* The second statement of the procedure AddToWhitelist.
ProcAddAudit(s) ==
    /\ sess[s].pc = "procAudit"
    /\ audit' = Append(audit, auditRow(sess[s].uid, sess[s].type, "ADD",
                                       sess[s].by))
    /\ dbReturn(s, "AddToWhitelist", sess[s].uid, sess[s].type, procDone, FALSE)
    /\ UNCHANGED rows
    /\ dbFrame

\* The first statement of the procedure RemoveFromWhitelist.
ProcRemoveUpdate(s, uid, type) ==
    /\ sess[s].pc = "idle"
    /\ HasRoom
    /\ rows' = softDelete(rows, uid, type)
    /\ dbGoto(s, "removeAudit", uid, type, Null, removedBy)
    /\ UNCHANGED audit
    /\ dbFrame

\* The second statement of the procedure RemoveFromWhitelist.
ProcRemoveAudit(s) ==
    /\ sess[s].pc = "removeAudit"
    /\ audit' = Append(audit, auditRow(sess[s].uid, sess[s].type, "REMOVE",
                                       sess[s].by))
    /\ dbReturn(s, "RemoveFromWhitelist", sess[s].uid, sess[s].type, procDone,
                FALSE)
    /\ UNCHANGED rows
    /\ dbFrame

\* The procedure CheckWhitelist.
CheckWhitelist(s, uid, type) ==
    /\ sess[s].pc = "idle"
    /\ dbReturn(s, "CheckWhitelist", uid, type,
                checkResult(isWhitelisted(rows, uid, type)), FALSE)
    /\ UNCHANGED <<rows, audit>>
    /\ dbFrame

InitDb ==
    /\ CodecIdle
    /\ ServiceIdle
    /\ RaceIdle
    /\ BridgeIdle
    /\ DbIdle
    /\ LateIdle

NextDb ==
    \/ \E s \in Sessions, uid \in DbUids, name \in DbNames, type \in DbTypes :
          PhpBegin(s, uid, name, type)
    \/ \E s \in Sessions, ok \in BOOLEAN : PhpInsert(s, ok)
    \/ \E s \in Sessions, ok \in BOOLEAN : PhpAudit(s, ok)
    \/ \E s \in Sessions, uid \in DbUids, name \in DbNames, type \in DbTypes :
          ProcAddInsert(s, uid, name, type)
    \/ \E s \in Sessions : ProcAddAudit(s)
    \/ \E s \in Sessions, uid \in DbUids, type \in DbTypes :
          ProcRemoveUpdate(s, uid, type)
    \/ \E s \in Sessions : ProcRemoveAudit(s)
    \/ \E s \in Sessions, uid \in DbUids, type \in DbTypes :
          CheckWhitelist(s, uid, type)

SpecDb == InitDb /\ [][NextDb]_vars

kAdmin == [uid |-> "u1", type |-> "ADMIN"]
kS3 == [uid |-> "u1", type |-> "S3"]

RowsOfKey(table, uid, type) ==
    {i \in 1..Len(table) :
        table[i].steam_uid = uid /\ table[i].whitelist_type = type}

OneRowPerKey ==
    \A i, j \in 1..Len(rows) :
        (/\ rows[i].steam_uid = rows[j].steam_uid
         /\ rows[i].whitelist_type = rows[j].whitelist_type) => i = j

\* Session s runs the insert statement of an add in this step.
AddInsertStep(s) ==
    \/ sess[s].pc = "insert" /\ sess'[s].pc = "audit"
    \/ sess[s].pc = "idle" /\ sess'[s].pc = "procAudit"

\* Like table, but row i has is_active = 1 and, when the add gave a name,
\* that name.
Reactivated(table, i, name) ==
    [table EXCEPT ![i].is_active = 1,
                  ![i].player_name = IF name # Null THEN name ELSE @]

AddReactivates ==
    \A s \in Sessions :
        AddInsertStep(s) =>
            \A i \in RowsOfKey(rows, sess'[s].uid, sess'[s].type) :
                rows' = Reactivated(rows, i, sess'[s].name)

\* C17: player_whitelist never holds two rows with the same (steam_uid,
\* whitelist_type), whatever the interleaving of the statements of
\* addToWhitelist, AddToWhitelist and RemoveFromWhitelist; and the insert
\* statement of an add whose key already has a row (a removed one
\* included) sets is_active = 1 on that row and inserts nothing.
C17_UniqueAndReactivated == []OneRowPerKey /\ [][AddReactivates]_vars

C17_Witness ==
    /\ audit = <<auditRow(kAdmin.uid, kAdmin.type, "REMOVE", removedBy),
                 auditRow(kAdmin.uid, kAdmin.type, "ADD", procAddedBy)>>
    /\ Len(rows) = 1
    /\ rows[1].steam_uid = kAdmin.uid
    /\ rows[1].whitelist_type = kAdmin.type
    /\ rows[1].added_by = phpAddedBy
    /\ rows[1].is_active = 1
    /\ dbRet.op = "AddToWhitelist"
    /\ dbRet.result = procDone

\* The membership check: the count of rows with the key and is_active = 1
\* is greater than 0.
Member(table, uid, type) ==
    Cardinality({i \in RowsOfKey(table, uid, type) : table[i].is_active = 1}) > 0

RemoveUpdateStep(s) == sess[s].pc = "idle" /\ sess'[s].pc = "removeAudit"
RemoveAuditStep(s) == sess[s].pc = "removeAudit" /\ sess'[s].pc = "idle"

Deactivated(table, uid, type) ==
    [i \in 1..Len(table) |->
        IF i \in RowsOfKey(table, uid, type)
        THEN [steam_uid |-> table[i].steam_uid,
              player_name |-> table[i].player_name,
              whitelist_type |-> table[i].whitelist_type,
              added_by |-> table[i].added_by,
              notes |-> table[i].notes,
              is_active |-> 0]
        ELSE table[i]]

SoftDeleteStep ==
    \A s \in Sessions :
        /\ RemoveUpdateStep(s) =>
              /\ rows' = Deactivated(rows, sess'[s].uid, sess'[s].type)
              /\ Len(rows') = Len(rows)
              /\ ~Member(rows', sess'[s].uid, sess'[s].type)
              /\ audit' = audit
        /\ RemoveAuditStep(s) =>
              /\ rows' = rows
              /\ audit' = Append(audit,
                                 [steam_uid |-> sess[s].uid,
                                  whitelist_type |-> sess[s].type,
                                  action |-> "REMOVE",
                                  performed_by |-> sess[s].by])
              /\ dbRet'.op = "RemoveFromWhitelist"

MemberOnlyByAdd ==
    \A uid \in DbUids, type \in DbTypes :
        (~Member(rows, uid, type) /\ Member(rows', uid, type)) =>
            \E s \in Sessions :
                /\ AddInsertStep(s)
                /\ sess'[s].uid = uid
                /\ sess'[s].type = type

\* C18: the UPDATE of RemoveFromWhitelist(uid, type, by) keeps every row,
\* sets is_active = 0 on the row with that key and changes no other row;
\* its second statement appends the audit row (uid, type, REMOVE, by); the
\* membership check of the key is false right after the UPDATE, and only
\* the insert statement of an add for that key makes it true again.
C18_SoftDelete == [][SoftDeleteStep /\ MemberOnlyByAdd]_vars

C18_Witness ==
    /\ dbRet.op = "RemoveFromWhitelist"
    /\ dbRet.uid = kAdmin.uid
    /\ dbRet.type = kAdmin.type
    /\ Len(rows) = 2
    /\ \E i \in RowsOfKey(rows, kAdmin.uid, kAdmin.type) : rows[i].is_active = 0
    /\ Member(rows, kS3.uid, kS3.type)
    /\ ~Member(rows, kAdmin.uid, kAdmin.type)
    /\ audit[Len(audit)] = auditRow(kAdmin.uid, kAdmin.type, "REMOVE", removedBy)

PhpInsertStep(s) == sess[s].pc = "insert" /\ sess'[s].pc = "audit"
PhpAuditStep(s) == sess[s].pc = "audit" /\ sess'[s].pc = "idle"

AuditNeverFailsTheAdd ==
    \A s \in Sessions :
        /\ PhpInsertStep(s) =>
              /\ Member(rows', sess[s].uid, sess[s].type)
              /\ Cardinality(RowsOfKey(rows', sess[s].uid, sess[s].type)) = 1
        /\ PhpAuditStep(s) =>
              /\ rows' = rows
              /\ dbRet'.op = "addToWhitelist"
              /\ dbRet'.uid = sess[s].uid
              /\ dbRet'.type = sess[s].type
              /\ dbRet'.result.success
              /\ dbRet'.result.message = "Successfully added to whitelist"
              /\ \/ audit' = audit /\ dbRet'.logged
                 \/ /\ Len(audit') = Len(audit) + 1
                    /\ audit'[Len(audit')].action = "ADD"
                    /\ ~dbRet'.logged

\* C19: the insert statement of WhitelistDatabase::addToWhitelist leaves
\* exactly one row with the key, active; the logAudit that follows changes
\* no row of player_whitelist and the call returns success = true with
\* 'Successfully added to whitelist', whether the audit insert wrote its
\* row or failed (and was written to the error log).
C19_AuditFailureHarmless == [][AuditNeverFailsTheAdd]_vars

C19_Witness ==
    /\ dbRet.op = "addToWhitelist"
    /\ dbRet.uid = kAdmin.uid
    /\ dbRet.type = kAdmin.type
    /\ dbRet.logged
    /\ dbRet.result.success
    /\ audit = <<>>
    /\ Member(rows, kAdmin.uid, kAdmin.type)
    /\ \A s \in Sessions : sess[s].pc = "idle"

\* An addToWhitelist call returns from its first checks in this step.
ReturnsAtChecks ==
    /\ sess' = sess
    /\ dbRet' # dbRet
    /\ dbRet'.op = "addToWhitelist"

GoesOnToInsert(s) == sess[s].pc = "idle" /\ sess'[s].pc = "insert"

ReAddWritesNothing ==
    /\ ReturnsAtChecks =>
          /\ rows' = rows
          /\ audit' = audit
          /\ IF dbRet'.type \notin whitelist_types
             THEN /\ ~dbRet'.result.success
                  /\ dbRet'.result.message = "Invalid whitelist type"
             ELSE /\ Member(rows, dbRet'.uid, dbRet'.type)
                  /\ dbRet'.result.success
                  /\ dbRet'.result.already_existed
                  /\ dbRet'.result.message = "Already whitelisted"
    /\ \A s \in Sessions :
          GoesOnToInsert(s) =>
              /\ sess'[s].type \in whitelist_types
              /\ ~Member(rows, sess'[s].uid, sess'[s].type)

\* C20: WhitelistDatabase::addToWhitelist for a key whose row is active
\* changes neither player_whitelist nor whitelist_audit_log and returns
\* success = true, already_existed = true and 'Already whitelisted'; for a
\* type that is not in whitelist_types it changes neither table and
\* returns success = false; it goes on to its insert statement only for a
\* valid type whose key has no active row.
C20_ReAddHarmless == [][ReAddWritesNothing]_vars

C20_Witness ==
    /\ dbRet.op = "addToWhitelist"
    /\ dbRet.uid = kAdmin.uid
    /\ dbRet.type = kAdmin.type
    /\ dbRet.result.already_existed
    /\ dbRet.result.message = "Already whitelisted"
    /\ Len(rows) = 1
    /\ Member(rows, kAdmin.uid, kAdmin.type)
    /\ audit = <<auditRow(kAdmin.uid, kAdmin.type, "ADD", phpAddedBy)>>

-----------------------------------------------------------------------------
(* Success and the file; the order of the checks of addUid.                *)

\* C25 as claimed: whenever addUid(role, id) returns success=true the file
\* afterwards parses to a list for the role that contains id, and whenever
\* removeUid(role, id) returns success=true the file afterwards parses to a
\* list for the role that does not contain id.
C25_SuccessReflected ==
    (ret.kind = "return" /\ ret.success) =>
        /\ call.op = "addUid" => includes(ListAfter, call.uid)
        /\ call.op = "removeUid" => ~includes(ListAfter, call.uid)

SeventeenDigits(u) == Len(u) = 17 /\ \A k \in 1..Len(u) : u[k] \in Digits

\* C27: addUid with a role whose upper-cased form is not configured
\* returns the InvalidRole result whatever the identifier; with a valid
\* role and an identifier that is not 17 digits it returns the
\* InvalidUidFormat result; both are returned results, with the file
\* untouched, also when the file does not exist; with valid arguments and
\* no file the call throws and no file exists afterwards.
C27_ValidationPrecedence ==
    call.op = "addUid" =>
        /\ ~RoleIsValid =>
              (ret = Returned(FALSE, "InvalidRole") /\ file = before)
        /\ (RoleIsValid /\ ~SeventeenDigits(call.uid)) =>
              (ret = Returned(FALSE, "InvalidUidFormat") /\ file = before)
        /\ (RoleIsValid /\ SeventeenDigits(call.uid) /\ ~fileExists) =>
              (ret.kind = "throw" /\ file = <<>> /\ before = <<>>)

C27_Witness ==
    /\ call = [op |-> "addUid", role |-> rBogus, uid |-> badUid]
    /\ ~fileExists
    /\ ret = Returned(FALSE, "InvalidRole")
    /\ file = before

-----------------------------------------------------------------------------
(* The failed push.                                                        *)

TakesNext(step) == \E k \in 1..Len(trace') : trace'[k] = step

\* The temp file holds a text the remote host does not have.
UnsyncedTemp == usePterodactyl /\ fileExists /\ file # remote

FailedPushStep ==
    (usePterodactyl /\ TakesNext("upload") /\ ret'.kind = "throw") =>
        /\ ret' = Thrown("PterodactylApiError")
        /\ call'.op \in {"addUid", "removeUid"}
        /\ remote' = remote

AfterFailedPushStep ==
    (UnsyncedTemp /\ TakesNext("store")) =>
        /\ before' = remote
        /\ file' = storeOp(call', TRUE, remote).content
        /\ \/ ret' = storeOp(call', TRUE, remote).ret
           \/ /\ storeOp(call', TRUE, remote).ret.success
              /\ call'.op \in {"addUid", "removeUid"}
              /\ TakesNext("upload")
              /\ ret'.kind = "throw" \/ ret'.success

\* C28: in Pterodactyl mode a call whose upload fails throws the API error
\* and leaves the remote file as it was; and while the temp file differs
\* from the remote file, every call that reaches the store operation runs
\* it on the remote text: what it returns and what it leaves in the temp
\* file are what the operation gives on the remote text, so the mutation
\* that was not pushed is seen by no later list, add or remove.
C28_FailedPush == [][FailedPushStep /\ AfterFailedPushStep]_vars

C28_Witness ==
    /\ usePterodactyl
    /\ call = [op |-> "addUid", role |-> rAdmin, uid |-> Uid(2)]
    /\ trace = <<"download", "store", "upload">>
    /\ ret = Thrown("PterodactylApiError")
    /\ remote = remoteBefore
    /\ includes(parseRole(file, rAdmin), Uid(2))
    /\ ~includes(parseRole(remote, rAdmin), Uid(2))

-----------------------------------------------------------------------------
(* Concurrent calls on the singleton manager in Pterodactyl mode: the      *)
(* calls share the temp file; every await is a point where the other call  *)
(* may run.                                                                *)

SharedDoc == wellFormedDoc("'", sampleLists(<<Uid(1)>>))

SharedCalls ==
    {[op |-> "addUid", role |-> rAdmin, uid |-> Uid(2)],
     [op |-> "removeUid", role |-> rAdmin, uid |-> Uid(1)]}

InitShared ==
    /\ usePterodactyl = TRUE
    /\ remote = SharedDoc
    /\ remoteBefore = remote
    /\ trace = <<>>
    /\ ServiceIdle
    /\ CodecIdle
    /\ RaceIdle
    /\ DbIdle
    /\ LateIdle

sharedFrame == UNCHANGED <<usePterodactyl, remoteBefore, trace, before, call,
                           ret, prev, codecVars, dbVars, lateVars>>

\* const content = await pterodactylService.getWhitelistFile().
SharedDownload(p, c, dlOk) ==
    /\ pc[p] = "idle"
    /\ arg' = [arg EXCEPT ![p] = c]
    /\ IF dlOk
       THEN /\ snap' = [snap EXCEPT ![p] = remote]
            /\ res' = [res EXCEPT ![p] = idleRet]
            /\ pc' = [pc EXCEPT ![p] = "stage"]
       ELSE /\ snap' = [snap EXCEPT ![p] = <<>>]
            /\ res' = [res EXCEPT ![p] = apiError]
            /\ UNCHANGED pc
    /\ UNCHANGED <<fileExists, file, remote>>
    /\ sharedFrame

\* await writeFile(tempPath, content, 'utf-8').
SharedStage(p) ==
    /\ pc[p] = "stage"
    /\ fileExists' = TRUE
    /\ file' = snap[p]
    /\ pc' = [pc EXCEPT ![p] = "read"]
    /\ UNCHANGED <<snap, arg, res, remote>>
    /\ sharedFrame

\* service.addUid / removeUid: const content = await this.readFile().
SharedRead(p) ==
    /\ pc[p] = "read"
    /\ snap' = [snap EXCEPT ![p] = file]
    /\ pc' = [pc EXCEPT ![p] = "store"]
    /\ UNCHANGED <<fileExists, file, arg, res, remote>>
    /\ sharedFrame

\* The rest of the service call, which gave o on the content read: a
\* failed check returns, a passed one awaits writeFile on the temp file.
SharedStoreEnd(p, o) ==
    /\ pc[p] = "store"
    /\ IF o.ret.kind = "return" /\ o.ret.success
       THEN /\ file' = o.content
            /\ pc' = [pc EXCEPT ![p] = "syncRead"]
            /\ UNCHANGED res
       ELSE /\ res' = [res EXCEPT ![p] = o.ret]
            /\ pc' = [pc EXCEPT ![p] = "idle"]
            /\ UNCHANGED file
    /\ UNCHANGED <<fileExists, snap, arg, remote>>
    /\ sharedFrame

SharedStore(p) == SharedStoreEnd(p, storeOp(arg[p], TRUE, snap[p]))

\* syncToPterodactyl: const content = await readFile(localPath, 'utf-8').
SharedSyncRead(p) ==
    /\ pc[p] = "syncRead"
    /\ snap' = [snap EXCEPT ![p] = file]
    /\ pc' = [pc EXCEPT ![p] = "upload"]
    /\ UNCHANGED <<fileExists, file, arg, res, remote>>
    /\ sharedFrame

\* await pterodactylService.writeWhitelistFile(content), the suffix and the
\* return; snap[p] stays the text the call uploaded.
SharedUpload(p, upOk) ==
    /\ pc[p] = "upload"
    /\ IF upOk
       THEN /\ remote' = snap[p]
            /\ res' = [res EXCEPT ![p] =
                          synced(Returned(TRUE,
                              IF arg[p].op = "addUid" THEN "Added"
                              ELSE "Removed"))]
       ELSE /\ UNCHANGED remote
            /\ res' = [res EXCEPT ![p] = apiError]
    /\ pc' = [pc EXCEPT ![p] = "idle"]
    /\ UNCHANGED <<fileExists, file, snap, arg>>
    /\ sharedFrame

NextShared ==
    \/ \E p \in Procs, c \in SharedCalls, dlOk \in BOOLEAN :
          SharedDownload(p, c, dlOk)
    \/ \E p \in Procs : SharedStage(p)
    \/ \E p \in Procs : SharedRead(p)
    \/ \E p \in Procs : SharedStore(p)
    \/ \E p \in Procs : SharedSyncRead(p)
    \/ \E p \in Procs, upOk \in BOOLEAN : SharedUpload(p, upOk)

SpecShared == InitShared /\ [][NextShared]_vars

\* C26 as claimed: whenever a manager.addUid(role, id) has returned success
\* with the synced suffix, the text it uploaded lists id under the role, and
\* whenever a manager.removeUid has returned success the text it uploaded
\* does not list id.
C26_UploadReflectsCall ==
    \A p \in Procs :
        (pc[p] = "idle" /\ res[p].kind = "return" /\ res[p].success) =>
            /\ res[p].msg = "AddedSynced" =>
                  includes(parseRole(snap[p], arg[p].role), arg[p].uid)
            /\ res[p].msg = "RemovedSynced" =>
                  ~includes(parseRole(snap[p], arg[p].role), arg[p].uid)

-----------------------------------------------------------------------------
(* The chat command: execute() of the whitelist command.                   *)

theAdminRole == "admins"
Members ==
    {noMember,
     [present |-> TRUE, roles |-> {}],
     [present |-> TRUE, roles |-> {"others"}],
     [present |-> TRUE, roles |-> {theAdminRole, "others"}]}
Subcommands == {"add", "remove", "list", "roles", "status", "backup"}

\* A check that lets everyone through.
hasPermissionOpen(i) == TRUE

\* hasPermission(interaction): without a configured admin role everyone
\* passes; otherwise interaction.member?.roles?.cache?.has(adminRoleId),
\* which is undefined, hence falsy, without a member.
hasPermission(i) ==
    IF adminRoleId = NoValue
    THEN TRUE
    ELSE i.member.present /\ adminRoleId \in i.member.roles

\* What a handler whose manager call threw leaves: the catch of execute
\* answers with followUp after a deferReply and with reply otherwise.
caught(sent) ==
    IF sent # <<>> THEN Append(sent, "followUp:error")
    ELSE <<"reply:error">>

\* The handlers: the manager operations they perform and what they send,
\* given whether the awaited manager call succeeds (ok) and whether
\* getServerStatus does (statusOk).
handle(sub, ok, statusOk) ==
    IF sub = "add" \/ sub = "remove" \/ sub = "list"
    THEN [ops |-> <<IF sub = "add" THEN "addUid"
                    ELSE IF sub = "remove" THEN "removeUid"
                    ELSE "getUids">>,
          sent |-> IF ok THEN <<"deferReply", "editReply">>
                   ELSE caught(<<"deferReply">>)]
    ELSE IF sub = "roles"
    THEN [ops |-> <<"getRoles">>, sent |-> <<"reply:roles">>]
    ELSE IF sub = "status"
    THEN [ops |-> IF usePterodactyl
                  THEN <<"isPterodactylEnabled", "getServerStatus",
                         "getAllWhitelists">>
                  ELSE <<"isPterodactylEnabled", "getAllWhitelists">>,
          sent |-> IF ~ok THEN caught(<<"deferReply">>)
                   ELSE IF usePterodactyl /\ ~statusOk
                   THEN <<"deferReply", "editReply:statusError">>
                   ELSE <<"deferReply", "editReply">>]
    ELSE IF ~usePterodactyl
    THEN [ops |-> <<"isPterodactylEnabled">>,
          sent |-> <<"reply:pterodactylOnly">>]
    ELSE [ops |-> <<"isPterodactylEnabled", "createBackup">>,
          sent |-> IF ok THEN <<"deferReply", "editReply">>
                   ELSE caught(<<"deferReply">>)]

cmdFrame == UNCHANGED <<codecVars, serviceVars, raceVars, remote, remoteBefore,
                        trace, dbVars, authVars, sqfVars, initVars>>

\* execute(interaction).
Execute(i, ok, statusOk) ==
    /\ interaction' = i
    /\ IF ~hasPermission(i)
       THEN /\ managerOps' = <<>>
            /\ replies' = <<"reply:noPermission">>
       ELSE /\ managerOps' = handle(i.subcommand, ok, statusOk).ops
            /\ replies' = handle(i.subcommand, ok, statusOk).sent
    /\ UNCHANGED <<adminRoleId, usePterodactyl>>
    /\ cmdFrame

InitCmd ==
    /\ adminRoleId \in {NoValue, theAdminRole}
    /\ usePterodactyl \in BOOLEAN
    /\ interaction = idleInteraction
    /\ managerOps = <<>>
    /\ replies = <<>>
    /\ remote = <<>>
    /\ remoteBefore = <<>>
    /\ trace = <<>>
    /\ CodecIdle
    /\ ServiceIdle
    /\ RaceIdle
    /\ DbIdle
    /\ AuthIdle
    /\ SqfIdle
    /\ InitIdle

NextCmd ==
    \E member \in Members, sub \in Subcommands, ok \in BOOLEAN,
       statusOk \in BOOLEAN :
        Execute([member |-> member, subcommand |-> sub], ok, statusOk)

SpecCmd == InitCmd /\ [][NextCmd]_vars

HasAdminRole == interaction.member.present /\ theAdminRole \in interaction.member.roles

\* C30: with an admin role configured, an interaction whose member lacks
\* the role (or that has no member) makes execute() perform no manager
\* operation, whatever the subcommand, and receive the refusal reply and
\* nothing else.
C30_PermissionGate ==
    (/\ interaction.subcommand # NoValue
     /\ adminRoleId = theAdminRole
     /\ ~HasAdminRole) =>
        /\ managerOps = <<>>
        /\ replies = <<"reply:noPermission">>

C30_Witness ==
    /\ adminRoleId = theAdminRole
    /\ interaction = [member |-> [present |-> TRUE, roles |-> {"others"}],
                      subcommand |-> "add"]
    /\ managerOps = <<>>
    /\ replies = <<"reply:noPermission">>

-----------------------------------------------------------------------------
(* The web flow: SteamAuth::validate and handleCallback.                   *)

STEAM_ID_LENGTH == 17

\* 'https://steamcommunity.com/openid/id/'.
openidIdUrl ==
    <<"h", "t", "t", "p", "s", ":", "/", "/", "s", "t", "e", "a", "m", "c",
      "o", "m", "m", "u", "n", "i", "t", "y", ".", "c", "o", "m", "/", "o",
      "p", "e", "n", "i", "d", "/", "i", "d", "/">>

requiredParams ==
    {"openid_assoc_handle", "openid_signed", "openid_sig", "openid_claimed_id"}

\* preg_match of /^https:\/\/steamcommunity\.com\/openid\/id\/(\d{17})$/:
\* the group when the subject matches, null otherwise.  Without the D
\* modifier, $ also matches before a newline that ends the subject.
pregMatchSteamId(subject) ==
    IF /\ LitAt(subject, 1, openidIdUrl)
       /\ \/ Len(subject) = Len(openidIdUrl) + STEAM_ID_LENGTH
          \/ /\ Len(subject) = Len(openidIdUrl) + STEAM_ID_LENGTH + 1
             /\ subject[Len(subject)] = "\n"
       /\ \A k \in 1..STEAM_ID_LENGTH : subject[Len(openidIdUrl) + k] \in Digits
    THEN phpString(SubSeq(subject, Len(openidIdUrl) + 1,
                          Len(openidIdUrl) + STEAM_ID_LENGTH))
    ELSE phpNull

\* verifyWithSteam: the request succeeded and the answer holds
\* 'is_valid:true'.
verifyWithSteam(answer) == answer = "is_valid:true"

\* A validate that trusts the parameters without asking Steam.
validateUnverified(params, answer) ==
    IF params.openid_mode # "id_res"
    THEN phpNull
    ELSE IF ~(requiredParams \subseteq params.present)
    THEN phpNull
    ELSE pregMatchSteamId(params.openid_claimed_id)

\* SteamAuth::validate($_GET), with what Steam answers to the check.
validate(params, answer) ==
    IF params.openid_mode # "id_res"
    THEN phpNull
    ELSE IF ~(requiredParams \subseteq params.present)
    THEN phpNull
    ELSE IF ~verifyWithSteam(answer)
    THEN phpNull
    ELSE pregMatchSteamId(params.openid_claimed_id)

\* WhitelistDatabase::addToWhitelist run from start to end on the tables
\* t = [rows, audit].
webAddToWhitelist(t, uid, name, type) ==
    IF ~isValidWhitelistType(type) THEN t
    ELSE IF isWhitelisted(t.rows, uid, type) THEN t
    ELSE [rows |-> upsert(t.rows, uid, name, type, phpAddedBy, Null),
          audit |-> Append(t.audit, auditRow(uid, type, "ADD", phpAddedBy))]

\* $config['app']['whitelist_types'] ?? ['S3', 'CAS'].
webWhitelistTypes == <<"S3", "CAS">>

\* WhitelistDatabase::addToWhitelists: addToWhitelist for each type.
RECURSIVE addToWhitelists(_, _, _, _)
addToWhitelists(t, uid, name, types) ==
    IF types = <<>> THEN t
    ELSE addToWhitelists(webAddToWhitelist(t, uid, name, Head(types)),
                         uid, name, Tail(types))

\* The callback requests: a complete id_res request with each claimed id,
\* and requests of another mode or without one required parameter.
ClaimedIds ==
    {openidIdUrl \o Uid(1),
     openidIdUrl \o Uid(2),
     openidIdUrl \o Uid(1) \o <<"\n">>,
     openidIdUrl \o uidPrefix,
     openidIdUrl \o Uid(1) \o <<"0">>,
     openidIdUrl \o uidPrefix \o <<"x">>,
     <<"x">> \o openidIdUrl \o Uid(1),
     Tail(openidIdUrl) \o Uid(1)}

CallbackParams ==
    {[openid_mode |-> "id_res", present |-> requiredParams,
      openid_claimed_id |-> c] : c \in ClaimedIds}
    \cup {[openid_mode |-> m, present |-> requiredParams,
           openid_claimed_id |-> openidIdUrl \o Uid(1)] :
             m \in {NoValue, "cancel"}}
    \cup {[openid_mode |-> "id_res", present |-> requiredParams \ {q},
           openid_claimed_id |-> IF q = "openid_claimed_id" THEN <<>>
                                 ELSE openidIdUrl \o Uid(1)] :
             q \in requiredParams}

SteamAnswers == {"is_valid:true", "is_valid:false", "failed"}

authFrame == UNCHANGED <<codecVars, serviceVars, raceVars, bridgeVars, sess,
                         dbRet, cmdVars, sqfVars, initVars>>

\* The end of handleCallback once validate gave id.
CallbackEnd(id, name, dbOk) ==
    /\ steamId' = id
    /\ IF id.null
       THEN /\ page' = "Authentication Failed"
            /\ UNCHANGED <<rows, audit>>
       ELSE IF ~dbOk
       THEN /\ page' = "Database Error"
            /\ UNCHANGED <<rows, audit>>
       ELSE /\ page' = "Whitelist Complete"
            /\ rows' = addToWhitelists([rows |-> rows, audit |-> audit],
                                       id.value, name, webWhitelistTypes).rows
            /\ audit' = addToWhitelists([rows |-> rows, audit |-> audit],
                                        id.value, name, webWhitelistTypes).audit
    /\ authFrame

\* handleCallback($config) for the request params, with Steam's answer
\* to the check, the name the Steam API gives, and whether the database
\* connection can be made.
HandleCallback(params, answer, name, dbOk) ==
    /\ request' = [params |-> params, verify |-> answer, name |-> name,
                   dbOk |-> dbOk]
    /\ CallbackEnd(validate(params, answer), name, dbOk)

InitAuth ==
    /\ CodecIdle
    /\ ServiceIdle
    /\ RaceIdle
    /\ BridgeIdle
    /\ DbIdle
    /\ LateIdle

NextAuth ==
    \E params \in CallbackParams, answer \in SteamAnswers, name \in DbNames,
       dbOk \in BOOLEAN :
        HandleCallback(params, answer, name, dbOk)

SpecAuth == InitAuth /\ [][NextAuth]_vars

IsSteamId(v) == Len(v) = 17 /\ \A k \in 1..Len(v) : v[k] \in Digits

ValidateContract ==
    /\ steamId.null \/ IsSteamId(steamId.value)
    /\ ~steamId.null =>
          /\ request.params.openid_mode = "id_res"
          /\ \A q \in {"openid_assoc_handle", "openid_signed", "openid_sig",
                       "openid_claimed_id"} : q \in request.params.present
          /\ request.verify = "is_valid:true"
    /\ \A i \in 1..Len(rows) : IsSteamId(rows[i].steam_uid)

WritesOnlyVerified ==
    /\ steamId'.null => (rows' = rows /\ audit' = audit)
    /\ \A i \in 1..Len(rows') :
          (i > Len(rows) \/ rows'[i] # rows[i]) =>
              (~steamId'.null /\ rows'[i].steam_uid = steamId'.value)

\* C24: what SteamAuth::validate returns is null or a string of exactly 17
\* digits, and it is not null only for a request of mode id_res with all
\* four required parameters whose check Steam answered with is_valid:true;
\* handleCallback changes player_whitelist and the audit log only when
\* validate returned an identifier, and every row it writes carries that
\* identifier.
C24_OnlyVerifiedIds == []ValidateContract /\ [][WritesOnlyVerified]_vars

C24_Witness ==
    /\ request.params.openid_claimed_id = openidIdUrl \o Uid(1) \o <<"\n">>
    /\ request.verify = "is_valid:true"
    /\ steamId = phpString(Uid(1))
    /\ page = "Whitelist Complete"
    /\ Len(rows) = 2
    /\ rows[1].steam_uid = Uid(1)
    /\ rows[2].steam_uid = Uid(1)

\* ---------------------------------------------------------------------
\* The game server: fn_databaseInit and QS_fnc_whitelistDB.
\* ---------------------------------------------------------------------

\* diag_tickTime runs from 0 to MaxTime; a configured
\* QS_whitelist_cacheDuration of ShortDuration seconds expires within it.
MaxTime == 8
ShortDuration == 2

\* SQF values: a string, a number (by its digits), an array of values.
Str(x) == [t |-> "string", s |-> x, a |-> <<>>]
Num(x) == [t |-> "number", s |-> x, a |-> <<>>]
Arr(x) == [t |-> "array", s |-> "", a |-> x]

\* _return pushBackUnique x
pushBackUnique(list, x) ==
    IF \E i \in 1..Len(list) : list[i] = x THEN list ELSE Append(list, x)

\* QS_fnc_whitelistFile: the list the file holds for the type, here the
\* shipped ADMIN list and an S3 list the administrator has emptied.
fileUid == "76561100000000000"
QS_fnc_whitelistFile(type) ==
    IF type = "ADMIN" THEN <<Str(fileUid), Str(fileUid)>> ELSE <<>>

\* The commands fn_databaseInit sends to the extension, in the order of
\* the code.
cmdVersion == "VERSION"
cmdAddDatabase == "9:ADD_DATABASE"
cmdAddProtocol == "9:ADD_DATABASE_PROTOCOL"
cmdLock == "9:LOCK"
cmdTest == "0:SELECT COUNT(*) FROM whitelist_types"

\* What the extension may answer to them.
VersionReplies == {"", "1.033"}
CommandReplies == {"[1]", "[0]"}

\* A check that takes any answer for success.
anyReply(result) == TRUE

\* _connResult isEqualTo '[1]'
isOk(result) == result = "[1]"

\* The commands sent for the replies the extension gives, and whether
\* the connection ended locked.
initSent(version, conn, proto, lock) ==
    IF version = "" THEN <<cmdVersion>>
    ELSE IF ~isOk(conn) THEN <<cmdVersion, cmdAddDatabase>>
    ELSE IF ~isOk(proto) THEN <<cmdVersion, cmdAddDatabase, cmdAddProtocol>>
    ELSE IF ~isOk(lock)
         THEN <<cmdVersion, cmdAddDatabase, cmdAddProtocol, cmdLock>>
    ELSE <<cmdVersion, cmdAddDatabase, cmdAddProtocol, cmdLock, cmdTest>>

initLocked(version, conn, proto, lock) ==
    version # "" /\ isOk(conn) /\ isOk(proto) /\ isOk(lock)

serverFrame ==
    UNCHANGED <<codecVars, serviceVars, raceVars, bridgeVars, dbVars,
                cmdVars, authVars>>

\* fn_databaseInit, called once from fn_config.sqf.
DatabaseInit(server, version, conn, proto, lock, sent, locked) ==
    /\ ~initRet.called
    /\ sqf.pc = "idle"
    /\ IF ~server
       THEN /\ initSteps' = <<>>
            /\ initRet' = [called |-> TRUE, value |-> FALSE,
                           isServer |-> FALSE, replies |-> <<>>]
            /\ UNCHANGED <<isUsingDB, extdbProtocol>>
       ELSE /\ initSteps' = sent
            /\ initRet' = [called |-> TRUE, value |-> locked,
                           isServer |-> TRUE,
                           replies |-> SubSeq(<<version, conn, proto, lock>>,
                                              1, IF Len(sent) > 4 THEN 4
                                                 ELSE Len(sent))]
            /\ isUsingDB' = setVariable(locked)
            /\ extdbProtocol' =
                   IF locked
                   THEN setVariable(getVariable(extdbProtocol,
                                                "apex_whitelist"))
                   ELSE extdbProtocol
    /\ UNCHANGED <<cacheDuration, cache, now, sqf, sqfRet>>
    /\ serverFrame

\* The types QS_fnc_whitelistDB accepts.
validTypes == {"S3", "CAS", "S1", "OPFOR", "ALL", "ADMIN", "MODERATOR",
               "TRUSTED", "MEDIA", "CURATOR", "DEVELOPER"}
CallTypes == SqfTypes \cup {"BOGUS"}

\* The seconds a call without a configured duration keeps its cache, and
\* the seconds a call waits for the asynchronous result.
DefaultCacheDuration == 300
WaitSeconds == 5

dbUid1 == "76561198000000001"
dbUid2 == "76561198000000002"
Reply(text0, array) == [raw |-> text0, parsed |-> array]

\* What the extension answers to the query sent with 1: an id under which
\* the result will be ready, nothing, a failure, or the result itself as
\* [status, rows].
QueryReplies ==
    { Reply("[1]", <<Num("1")>>),
      Reply("[\"1\"]", <<Str("1")>>),
      Reply("", <<>>),
      Reply("[0]", <<Num("0")>>),
      Reply("[1,[]]", <<Num("1"), Arr(<<>>)>>),
      Reply("[1,[[\"76561198000000001\"]]]",
            <<Num("1"), Arr(<<Arr(<<Str(dbUid1)>>)>>)>>) }

\* What it answers to a poll with 5: nothing yet, or the rows.
PendingReplies == { Reply("", <<>>), Reply("[\"1\"]", <<Str("1")>>) }
ResultReplies ==
    { Reply("[]", <<>>),
      Reply("[[\"76561198000000001\"],[\"76561198000000001\"]]",
            <<Arr(<<Str(dbUid1)>>), Arr(<<Str(dbUid1)>>)>>),
      Reply("[\"76561198000000002\"]", <<Str(dbUid2)>>) }

\* The forEach over the parsed rows: the first column of a row that is an
\* array, and a row that is a string itself.
RECURSIVE forEachRow(_, _)
forEachRow(items, return) ==
    IF items = <<>> THEN return
    ELSE LET x == Head(items)
             r1 == IF x.t = "array" /\ Len(x.a) > 0
                   THEN pushBackUnique(return, x.a[1]) ELSE return
             r2 == IF x.t = "string" THEN pushBackUnique(r1, x) ELSE r1
         IN forEachRow(Tail(items), r2)

\* The result polled with 5, parsed.
asyncRows(result) ==
    IF result.raw # "" /\ result.raw # "[\"1\"]"
    THEN forEachRow(result.parsed, <<>>)
    ELSE <<>>

\* The result the extension gave at once, parsed.
syncRows(queryResult) ==
    IF queryResult.raw # "" /\ queryResult.raw # "[0]"
       /\ Len(queryResult.parsed) > 1
       /\ queryResult.parsed[2].t = "array"
    THEN forEachRow(queryResult.parsed[2].a, <<>>)
    ELSE <<>>

\* A cache check that does not look at the refresh flag.
cacheValidIgnoresForce(forceRefresh, cachedResult, age, duration) ==
    Len(cachedResult) > 0 /\ age < duration

\* The condition under which the cached list is returned.
cacheValid(forceRefresh, cachedResult, age, duration) ==
    ~forceRefresh /\ Len(cachedResult) > 0 /\ age < duration

\* A deadline that never passes.
deadlineNever(tickTime, timeout) == FALSE

\* The waitUntil condition.
resultArrived(result) == result.raw # "" /\ result.raw # "[\"1\"]"
deadlinePassed(tickTime, timeout) == tickTime > timeout

\* A function that hands back what the database gave, empty or not.
noFallback(type, return) == return

\* The fallback when the database gave nothing.
emptyFallback(type, return) ==
    IF Len(return) = 0 THEN QS_fnc_whitelistFile(type) ELSE return

sqfReturn(type, forceRefresh, value, queried, threw, timedOut, reply) ==
    [type |-> type, forceRefresh |-> forceRefresh, value |-> value,
     queried |-> queried, at |-> now, threw |-> threw,
     timedOut |-> timedOut, reply |-> reply]

\* An exit before the query: nothing but the return value.
sqfExit(type, forceRefresh, value) ==
    /\ sqfRet' = sqfReturn(type, forceRefresh, value, FALSE, FALSE, FALSE,
                           noReply)
    /\ UNCHANGED <<cache, sqf>>

\* What follows the try block: the fallback, the cache update, the return.
sqfFinish(type, forceRefresh, currentTime, value, threw, timedOut, reply) ==
    /\ cache' = [cache EXCEPT ![type] =
                    [list |-> value, time |-> currentTime]]
    /\ sqfRet' = sqfReturn(type, forceRefresh, value, TRUE, threw,
                           timedOut, reply)
    /\ sqf' = idleSqf

\* The last second at which a call starts: the clock leaves room for its
\* wait.
LastCallTime == MaxTime - WaitSeconds - 1

\* A call of QS_fnc_whitelistDB, up to its return or to the waitUntil.
SqfCall(type, forceRefresh, threw, queryResult, found) ==
    /\ sqf.pc = "idle"
    /\ now <= LastCallTime
    /\ IF type \notin validTypes
       THEN sqfExit(type, forceRefresh, <<>>)
       ELSE IF ~getVariable(isUsingDB, FALSE)
       THEN sqfExit(type, forceRefresh, QS_fnc_whitelistFile(type))
       ELSE IF cacheValid(forceRefresh, cache[type].list,
                          now - cache[type].time,
                          getVariable(cacheDuration, DefaultCacheDuration))
       THEN sqfExit(type, forceRefresh, cache[type].list)
       ELSE IF threw
       THEN sqfFinish(type, forceRefresh, now,
                      emptyFallback(type, QS_fnc_whitelistFile(type)),
                      TRUE, FALSE, noReply)
       ELSE IF queryResult.raw = "[1]" \/ queryResult.raw = "[\"1\"]"
       THEN /\ sqf' = [pc |-> "wait", type |-> type,
                       forceRefresh |-> forceRefresh, currentTime |-> now,
                       timeout |-> now + WaitSeconds]
            /\ UNCHANGED <<cache, sqfRet>>
       ELSE sqfFinish(type, forceRefresh, now, emptyFallback(type, found),
                      FALSE, FALSE, queryResult)
    /\ UNCHANGED <<isUsingDB, cacheDuration, now, initVars>>
    /\ serverFrame

\* One round of the waitUntil, and what follows when it ends.
SqfPoll(result, found) ==
    /\ sqf.pc = "wait"
    /\ IF resultArrived(result) \/ deadlinePassed(now, sqf.timeout)
       THEN sqfFinish(sqf.type, sqf.forceRefresh, sqf.currentTime,
                      emptyFallback(sqf.type, found), FALSE,
                      ~resultArrived(result), result)
       ELSE UNCHANGED <<cache, sqf, sqfRet>>
    /\ UNCHANGED <<isUsingDB, cacheDuration, now, initVars>>
    /\ serverFrame

\* The clock advances, as long as a call waits or another can start.
Tick ==
    /\ now < MaxTime
    /\ sqf.pc = "wait" \/ now < LastCallTime
    /\ now' = now + 1
    /\ UNCHANGED <<isUsingDB, cacheDuration, cache, sqf, sqfRet, initVars>>
    /\ serverFrame

InitSqf ==
    /\ CodecIdle
    /\ ServiceIdle
    /\ RaceIdle /\ BridgeIdle /\ DbIdle /\ CmdIdle /\ AuthIdle
    /\ isUsingDB = undefinedFlag
    /\ cacheDuration \in {undefinedNumber, setVariable(ShortDuration)}
    /\ cache = [t \in SqfTypes |-> [list |-> <<>>, time |-> 0]]
    /\ now = 0
    /\ sqf = idleSqf
    /\ sqfRet = idleSqfRet
    /\ InitIdle

PollPending == \E r \in PendingReplies : SqfPoll(r, asyncRows(r))
PollResult == \E r \in ResultReplies : SqfPoll(r, asyncRows(r))

NextSqf ==
    \/ \E server \in BOOLEAN, version \in VersionReplies,
          conn \in CommandReplies, proto \in CommandReplies,
          lock \in CommandReplies :
           DatabaseInit(server, version, conn, proto, lock,
                        initSent(version, conn, proto, lock),
                        initLocked(version, conn, proto, lock))
    \/ \E type \in CallTypes, forceRefresh \in BOOLEAN, threw \in BOOLEAN,
          q \in QueryReplies :
           SqfCall(type, forceRefresh, threw, q, syncRows(q))
    \/ PollPending
    \/ PollResult
    \/ Tick

SpecSqf == InitSqf /\ [][NextSqf]_vars

\* The mission that leaves QS_whitelist_cacheDuration unset. The clock runs
\* on, and the scheduler evaluates the waitUntil again while no result has
\* come.
InitSqfLive == InitSqf /\ cacheDuration = undefinedNumber

SpecSqfLive ==
    InitSqfLive /\ [][NextSqf]_vars /\ WF_vars(Tick) /\ WF_vars(PollPending)

\* ---------------------------------------------------------------------
\* C29: fn_databaseInit sends the extension check, ADD_DATABASE,
\* ADD_DATABASE_PROTOCOL and LOCK in that order and stops at the first
\* that fails; when it has returned, QS_server_isUsingDB is true iff all
\* four succeeded and the return value is that flag; after a failed
\* initialisation every lookup of a valid type returns the file list
\* without a query.
\* ---------------------------------------------------------------------
initOrder == <<cmdVersion, cmdAddDatabase, cmdAddProtocol, cmdLock>>

StepSucceeded(i) ==
    IF i = 1 THEN initRet.replies[1] # "" ELSE initRet.replies[i] = "[1]"

AllFourSucceeded ==
    Len(initRet.replies) = 4 /\ \A i \in 1..4 : StepSucceeded(i)

InitSequence ==
    (initRet.called /\ initRet.isServer) =>
        LET n == Len(initRet.replies)
        IN /\ n \in 1..4
           /\ Len(initSteps) >= n
           /\ SubSeq(initSteps, 1, n) = SubSeq(initOrder, 1, n)
           /\ \A i \in 1..(n - 1) : StepSucceeded(i)
           /\ ~AllFourSucceeded => (Len(initSteps) = n /\ ~StepSucceeded(n))
           /\ isUsingDB.defined
           /\ isUsingDB.value = AllFourSucceeded
           /\ initRet.value = isUsingDB.value

LookupAfterFailedInit ==
    (/\ initRet.called
     /\ ~initRet.value
     /\ sqfRet' # sqfRet
     /\ sqfRet'.type \in validTypes)
        => /\ sqfRet'.value = QS_fnc_whitelistFile(sqfRet'.type)
           /\ ~sqfRet'.queried

C29_InitSequence == []InitSequence /\ [][LookupAfterFailedInit]_vars

C29_Witness ==
    /\ initRet.called
    /\ initRet.isServer
    /\ initSteps = initOrder
    /\ initRet.replies[4] = "[0]"
    /\ ~isUsingDB.value
    /\ sqfRet.type = "ADMIN"
    /\ sqfRet.at > 0
    /\ sqfRet.value = <<Str(fileUid), Str(fileUid)>>

\* ---------------------------------------------------------------------
\* C21: with the database enabled and a valid type, a call returns the
\* cached list without a query iff forceRefresh is false, the cached list
\* of the type is not empty and now - cacheTime < cacheDuration (300 when
\* not configured); every other call queries, and on its return the
\* type's cache entry holds the returned list and the time the call took
\* at its start, the other type's entry being untouched.
\* ---------------------------------------------------------------------
DatabaseEnabled == isUsingDB.defined /\ isUsingDB.value

Duration == IF cacheDuration.defined THEN cacheDuration.value ELSE 300

CachedFresh(t, force) ==
    /\ ~force
    /\ Len(cache[t].list) > 0
    /\ now - cache[t].time < Duration

OnlyEntryWritten(t, list, time) ==
    /\ cache'[t] = [list |-> list, time |-> time]
    /\ \A u \in SqfTypes \ {t} : cache'[u] = cache[u]

ReturnsAtOnce ==
    /\ sqf.pc = "idle"
    /\ sqfRet' # sqfRet
    /\ sqfRet'.type \in validTypes

CacheStep ==
    /\ (ReturnsAtOnce /\ DatabaseEnabled) =>
          /\ ~sqfRet'.queried
                <=> CachedFresh(sqfRet'.type, sqfRet'.forceRefresh)
          /\ ~sqfRet'.queried =>
                /\ sqfRet'.value = cache[sqfRet'.type].list
                /\ cache' = cache
          /\ sqfRet'.queried =>
                OnlyEntryWritten(sqfRet'.type, sqfRet'.value, now)
    /\ (sqf.pc = "idle" /\ sqf'.pc = "wait") =>
          /\ DatabaseEnabled
          /\ ~CachedFresh(sqf'.type, sqf'.forceRefresh)
          /\ sqf'.currentTime = now
    /\ (sqf.pc = "wait" /\ sqf'.pc = "idle") =>
          /\ sqfRet'.queried
          /\ OnlyEntryWritten(sqf.type, sqfRet'.value, sqf.currentTime)

C21_CacheExpiry == [][CacheStep]_vars

\* A list served from the cache at a later second than it was stored.
C21_Witness ==
    /\ DatabaseEnabled
    /\ sqfRet.type = "S3"
    /\ ~sqfRet.queried
    /\ ~sqfRet.forceRefresh
    /\ sqfRet.value = <<Str(dbUid1)>>
    /\ sqfRet.value = cache["S3"].list
    /\ sqfRet.at > cache["S3"].time

\* ---------------------------------------------------------------------
\* C22: a call of QS_fnc_whitelistDB with a valid type returns the list
\* of QS_fnc_whitelistFile for that type whenever the database is
\* disabled, the query raised an error, or the query gave no row.
\* ---------------------------------------------------------------------
\* The answers that carry no row: none at all, a failure status, an empty
\* row list.
NoRowAnswers == {"", "[\"1\"]", "[0]", "[1,[]]", "[]"}

Returns ==
    /\ sqfRet' # sqfRet
    /\ sqfRet'.type \in validTypes

FallbackStep ==
    /\ (Returns /\ ~DatabaseEnabled) =>
          /\ sqfRet'.value = QS_fnc_whitelistFile(sqfRet'.type)
          /\ ~sqfRet'.queried
    /\ (/\ Returns
        /\ DatabaseEnabled
        /\ sqfRet'.queried
        /\ sqfRet'.threw \/ sqfRet'.reply.raw \in NoRowAnswers) =>
          sqfRet'.value = QS_fnc_whitelistFile(sqfRet'.type)

C22_FailOpen == [][FallbackStep]_vars

\* The database answered with an empty row list and the caller got the
\* ADMIN list of the file.
C22_Witness ==
    /\ DatabaseEnabled
    /\ sqfRet.queried
    /\ sqfRet.type = "ADMIN"
    /\ sqfRet.reply.raw = "[1,[]]"
    /\ sqfRet.value = <<Str(fileUid), Str(fileUid)>>

\* ---------------------------------------------------------------------
\* C23: the wait for the asynchronous result always ends, by a result or
\* by the deadline of WaitSeconds seconds; a wait that ended by the
\* deadline returns the list of QS_fnc_whitelistFile.
\* ---------------------------------------------------------------------
Waiting == sqf.pc = "wait"

WaitIsBounded ==
    /\ Waiting => sqf.timeout = sqf.currentTime + 5
    /\ sqfRet.timedOut =>
          /\ sqfRet.queried
          /\ sqfRet.type \in validTypes
          /\ sqfRet.value = QS_fnc_whitelistFile(sqfRet.type)

C23_BoundedWait ==
    /\ Waiting ~> ~Waiting
    /\ []WaitIsBounded

\* A wait ended by the deadline, and the caller got the ADMIN list of the
\* file.
C23_Witness ==
    /\ sqfRet.timedOut
    /\ sqfRet.type = "ADMIN"
    /\ sqfRet.reply.raw \in {"", "[\"1\"]"}
    /\ sqfRet.value = <<Str(fileUid), Str(fileUid)>>

====
